---- MODULE Spec2Model ----
(***************************************************************************)
(* Model of the collection-and-caching pipeline of tula-news-bot:          *)
(*   src/src/news/models.py     NewsArticle (validation, to_dict/from_dict)*)
(*   src/src/news/sources.py    retry_on_failure, GoogleNewsSource         *)
(*   src/src/news/cache.py      NewsCache                                  *)
(*   src/src/news/collector.py  NewsCollector                              *)
(*                                                                         *)
(* TLA+ strings are ASCII, so the Cyrillic literals of the source are      *)
(* written in transliteration ("Tula, Tulskaya oblast" for the default     *)
(* region, "tula", "tule", "tulsk", "oblast" for the keyword stems).       *)
(* Floats in [0, 1] are counted in tenths (0.3 is 3, 1.0 is 10).           *)
(* datetime values are integers on the model's clock, whose tick is the    *)
(* resolution of the snapshot file names (strftime("%Y%m%d_%H%M%S"), one   *)
(* second); an hour is shortened to TicksPerHour ticks.                    *)
(***************************************************************************)
EXTENDS Integers, Sequences, FiniteSets, TLC

VARIABLES
    now,        \* the wall clock, datetime.now()
    cache_dir,  \* storage/cache: cache file name -> content of the file
    storage,    \* config.storage_path: snapshot time stamp -> content of the file
    use_cache,  \* NewsCollector(use_cache=...): whether self.cache is a NewsCache
    pc,         \* position of the caller: "idle", "fetching" inside collect, or
                \* "wrapper" inside a function wrapped by retry_on_failure
    call,       \* the frame of the collect call in progress
    retry,      \* the frame of the retry_on_failure wrapper in progress
    trace,      \* the outcomes of the calls the wrapper in progress has made of func
    last,       \* the last completed operation and what it returned or raised
    ops,        \* number of operations started so far
    faults      \* number of file writes that have failed so far

vars == <<now, cache_dir, storage, use_cache, pc, call, retry, trace, last, ops, faults>>

----------------------------------------------------------------------------
(* Bounds of the model *)

\* the clock runs from 0 to MaxTime
MaxTime == 1
\* clock ticks in one hour (the unit of ttl_hours)
TicksPerHour == 1
\* operations (calls of a public method) in one behaviour
MaxOps == 2
\* file writes that fail in one behaviour
MaxFaults == 1
\* largest max_attempts a retry_on_failure wrapper is configured with
MaxAttempts == 3

----------------------------------------------------------------------------
(* Strings *)

None == "<None>"

Char(s, i) == SubSeq(s, i, i)

\* sub in s (Python's substring test)
Contains(s, sub) ==
    \E i \in 1..(Len(s) - Len(sub) + 1) : SubSeq(s, i, i + Len(sub) - 1) = sub

UpperChars == "ABCDEFGHIJKLMNOPQRSTUVWXYZ"
LowerChars == "abcdefghijklmnopqrstuvwxyz"

LowerChar(c) ==
    IF \E i \in 1..Len(UpperChars) : Char(UpperChars, i) = c
    THEN Char(LowerChars, CHOOSE i \in 1..Len(UpperChars) : Char(UpperChars, i) = c)
    ELSE c

RECURSIVE Lower(_)
\* str.lower()
Lower(s) == IF s = "" THEN "" ELSE LowerChar(Head(s)) \o Lower(Tail(s))

IsSpace(c) == c \in {" ", "\t", "\n"}

RECURSIVE LStrip(_)
LStrip(s) == IF s # "" /\ IsSpace(Head(s)) THEN LStrip(Tail(s)) ELSE s

RECURSIVE RStrip(_)
RStrip(s) ==
    IF s # "" /\ IsSpace(Char(s, Len(s))) THEN RStrip(SubSeq(s, 1, Len(s) - 1)) ELSE s

\* str.strip()
Strip(s) == RStrip(LStrip(s))

\* index of the first occurrence of sub in s at or after position i, 0 if none
Find(s, sub, i) ==
    LET hits == {j \in i..(Len(s) - Len(sub) + 1) : SubSeq(s, j, j + Len(sub) - 1) = sub}
    IN  IF hits = {} THEN 0 ELSE CHOOSE j \in hits : \A k \in hits : j <= k

RECURSIVE Split(_, _)
\* str.split(sep): the sequence of segments between the separators
Split(s, sep) ==
    LET i == Find(s, sep, 1)
    IN  IF i = 0 THEN <<s>>
        ELSE <<SubSeq(s, 1, i - 1)>> \o Split(SubSeq(s, i + Len(sep), Len(s)), sep)

----------------------------------------------------------------------------
(* src/src/news/models.py *)

\* NewsCategory: member name -> value
NewsCategory ==
    ("POLITICS" :> "politics") @@ ("ECONOMY" :> "economy") @@ ("SOCIETY" :> "society") @@
    ("INCIDENT" :> "incident") @@ ("SPORT" :> "sport") @@ ("CULTURE" :> "culture") @@
    ("OTHER" :> "other")

\* default of the region field
DefaultArticleRegion == "Tulskaya oblast"

SchemeChars == LowerChars \o UpperChars \o "0123456789+-."

IsSchemeChar(c) == \E i \in 1..Len(SchemeChars) : Char(SchemeChars, i) = c

\* urlparse(url).scheme: the text before the first ":" when it is made of scheme
\* characters and starts with a letter, else empty
UrlScheme(url) ==
    LET i == Find(url, ":", 1)
    IN  IF /\ i > 1
           /\ \A j \in 1..(i - 1) : IsSchemeChar(Char(url, j))
           /\ LowerChar(Char(url, 1)) # Char(url, 1) \/ Contains(LowerChars, Char(url, 1))
           /\ ~ Contains("0123456789+-.", Char(url, 1))
        THEN Lower(SubSeq(url, 1, i - 1))
        ELSE ""

\* body up to its first "/", "?" or "#"
UpToDelimiter(body) ==
    LET ends == {j \in 1..Len(body) : Char(body, j) \in {"/", "?", "#"}}
    IN  IF ends = {} THEN body
        ELSE SubSeq(body, 1, (CHOOSE j \in ends : \A k \in ends : j <= k) - 1)

\* the netloc of rest, the url without its scheme
NetlocOf(rest) ==
    IF SubSeq(rest, 1, 2) = "//" THEN UpToDelimiter(SubSeq(rest, 3, Len(rest))) ELSE ""

\* urlparse(url).netloc: what follows "//" after the scheme, up to the next "/", "?" or "#"
UrlNetloc(url) ==
    NetlocOf(IF UrlScheme(url) # "" THEN SubSeq(url, Find(url, ":", 1) + 1, Len(url)) ELSE url)

\* NewsArticle._is_valid_url
IsValidUrl(url) == UrlScheme(url) # "" /\ UrlNetloc(url) # ""

\* Python's truth value of an optional string
Falsy(x) == x = None \/ x = ""

\* Validate that accepts a title of two characters
ValidateTitleOfTwo(a) ==
    IF Falsy(a.title) \/ Len(Strip(a.title)) < 2 THEN "ValueError: title"
    ELSE IF Falsy(a.url) \/ ~ IsValidUrl(a.url) THEN "ValueError: url"
    ELSE IF Falsy(a.source) \/ Len(Strip(a.source)) < 2 THEN "ValueError: source"
    ELSE IF ~ (0 <= a.relevance_score /\ a.relevance_score <= 10) THEN "ValueError: relevance"
    ELSE "ok"

\* NewsArticle._validate: "ok", or the ValueError it raises
Validate(a) ==
    IF Falsy(a.title) \/ Len(Strip(a.title)) < 3 THEN "ValueError: title"
    ELSE IF Falsy(a.url) \/ ~ IsValidUrl(a.url) THEN "ValueError: url"
    ELSE IF Falsy(a.source) \/ Len(Strip(a.source)) < 2 THEN "ValueError: source"
    ELSE IF ~ (0 <= a.relevance_score /\ a.relevance_score <= 10) THEN "ValueError: relevance"
    ELSE "ok"

\* __post_init__: the article a, or the ValueError that _validate raised
Constructed(a, verdict) ==
    IF verdict = "ok" THEN [ok |-> TRUE, article |-> a] ELSE [ok |-> FALSE, error |-> verdict]

\* NewsArticle(...): the dataclass constructor followed by __post_init__
NewsArticle(id, title, url, source, published_at, content, summary, category, region, relevance_score) ==
    LET a == [id |-> id, title |-> title, url |-> url, source |-> source,
              published_at |-> published_at, content |-> content, summary |-> summary,
              category |-> category, region |-> region,
              relevance_score |-> relevance_score]
    IN  Constructed(a, Validate(a))

\* datetime.isoformat()
IsoFormat(t) == "T" \o ToString(t)

\* the datetime values of the model
Times == 0..MaxTime

\* datetime.fromisoformat accepts exactly the strings isoformat produces
IsIsoFormat(s) == \E t \in Times : IsoFormat(t) = s

FromIsoFormat(s) == CHOOSE t \in Times : IsoFormat(t) = s

\* ToDict that writes the name of the category, not its value
ToDictCategoryName(a) ==
    [id |-> a.id, title |-> a.title, url |-> a.url, source |-> a.source,
     published_at |-> IsoFormat(a.published_at), content |-> a.content,
     summary |-> a.summary, category |-> a.category,
     region |-> a.region, relevance_score |-> a.relevance_score]

\* NewsArticle.to_dict
ToDict(a) ==
    [id |-> a.id, title |-> a.title, url |-> a.url, source |-> a.source,
     published_at |-> IsoFormat(a.published_at), content |-> a.content,
     summary |-> a.summary, category |-> NewsCategory[a.category],
     region |-> a.region, relevance_score |-> a.relevance_score]

\* dict.get(key, default)
DictGet(d, key, default) == IF key \in DOMAIN d THEN d[key] ELSE default

\* NewsCategory(value): the member with that value
IsCategoryValue(v) == \E m \in DOMAIN NewsCategory : NewsCategory[m] = v

CategoryOf(v) == CHOOSE m \in DOMAIN NewsCategory : NewsCategory[m] = v

\* try: first, except Exception: fallback
ExceptFallback(first, fallback) == IF first.ok THEN first ELSE fallback

\* NewsArticle.from_dict at time t: the first construction, and on any exception
\* the construction with base values, whose own ValueError is not caught
FromDict(data, t) ==
    LET published == DictGet(data, "published_at", IsoFormat(t))
        category  == DictGet(data, "category", "other")
    IN  ExceptFallback(
            IF published = None \/ ~ IsIsoFormat(published) THEN [ok |-> FALSE, error |-> "ValueError: isoformat"]
            ELSE IF category = None \/ ~ IsCategoryValue(category) THEN [ok |-> FALSE, error |-> "ValueError: category"]
            ELSE NewsArticle(DictGet(data, "id", ""), DictGet(data, "title", ""),
                             DictGet(data, "url", ""), DictGet(data, "source", ""),
                             FromIsoFormat(published), DictGet(data, "content", None),
                             DictGet(data, "summary", None), CategoryOf(category),
                             DictGet(data, "region", DefaultArticleRegion),
                             DictGet(data, "relevance_score", 0)),
            NewsArticle(DictGet(data, "id", "unknown"), DictGet(data, "title", "Bez zagolovka"),
                        DictGet(data, "url", "https://example.com"),
                        DictGet(data, "source", "Unknown"), t, None, None, "OTHER",
                        DefaultArticleRegion, 0))

----------------------------------------------------------------------------
(* src/src/core/config.py *)

\* config.news.default_region
default_region == "Tula, Tulskaya oblast"

\* config.news.news_limit
news_limit == 10

----------------------------------------------------------------------------
(* src/src/news/sources.py: exceptions and retry_on_failure *)

\* the base classes of each exception class, itself included
Bases ==
    ("Exception" :> {"Exception"}) @@
    ("ValueError" :> {"ValueError", "Exception"}) @@
    ("TypeError" :> {"TypeError", "Exception"}) @@
    ("OSError" :> {"OSError", "Exception"}) @@
    ("NetworkError" :> {"NetworkError", "Exception"}) @@
    ("TimeoutError" :> {"TimeoutError", "NetworkError", "Exception"}) @@
    ("ConnectionError" :> {"ConnectionError", "NetworkError", "Exception"})

Raise(cls, msg) == [cls |-> cls, msg |-> msg]

NoError == Raise("", "")

\* except exceptions as e: e is an instance of one of the classes
Caught(e, exceptions) == Bases[e.cls] \cap exceptions # {}

RECURSIVE Power(_, _)
Power(b, n) == IF n = 0 THEN 1 ELSE b * Power(b, n - 1)

\* WaitTime without the backoff: the same delay before every attempt
WaitTimeNoBackoff(delay, backoff, attempt, jitter) == delay + jitter

\* wait_time = delay * (backoff ** attempt) + random.uniform(0, 0.1), in tenths of a second
WaitTime(delay, backoff, attempt, jitter) == delay * Power(backoff, attempt) + jitter

\* the wrapper before its loop has run
NewFrame(max_attempts, delay, backoff, exceptions) ==
    [max_attempts |-> max_attempts, delay |-> delay, backoff |-> backoff,
     exceptions |-> exceptions, attempt |-> 0, calls |-> 0, sleeps |-> <<>>,
     status |-> "idle", error |-> NoError, result |-> <<>>]

\* wrapper(): entering the loop for attempt in range(max_attempts); with an empty
\* range the loop is skipped and "raise last_exception" raises None, a TypeError
\* (the one place where last_exception is read, so the frame does not keep it)
EnterWrapper(f) ==
    IF f.max_attempts >= 1
    THEN [f EXCEPT !.status = "running"]
    ELSE [f EXCEPT !.status = "raised",
                   !.error = Raise("TypeError", "exceptions must derive from BaseException")]

\* AfterCall with the test for the last attempt off by one
AfterCallOffByOne(f, outcome, jitter) ==
    LET g == [f EXCEPT !.calls = @ + 1]
    IN  IF outcome.ok THEN [g EXCEPT !.status = "returned", !.result = <<outcome.value>>]
        ELSE IF ~ Caught(outcome.error, f.exceptions)
             THEN [g EXCEPT !.status = "raised", !.error = outcome.error]
        ELSE IF f.attempt >= f.max_attempts - 2
             THEN [g EXCEPT !.status = "raised", !.error = outcome.error]
        ELSE [g EXCEPT !.sleeps = Append(@, WaitTime(f.delay, f.backoff, f.attempt, jitter)),
                       !.attempt = @ + 1]

\* AfterCall retrying every exception, as with "except Exception"
AfterCallRetriesAll(f, outcome, jitter) ==
    LET g == [f EXCEPT !.calls = @ + 1]
    IN  IF outcome.ok THEN [g EXCEPT !.status = "returned", !.result = <<outcome.value>>]
        ELSE IF f.attempt = f.max_attempts - 1
             THEN [g EXCEPT !.status = "raised", !.error = outcome.error]
        ELSE [g EXCEPT !.sleeps = Append(@, WaitTime(f.delay, f.backoff, f.attempt, jitter)),
                       !.attempt = @ + 1]

\* AfterCall without the return of the result: the loop goes on after a success
AfterCallNoReturn(f, outcome, jitter) ==
    LET g == [f EXCEPT !.calls = @ + 1]
    IN  IF outcome.ok
        THEN IF f.attempt = f.max_attempts - 1
             THEN [g EXCEPT !.status = "returned", !.result = <<outcome.value>>]
             ELSE [g EXCEPT !.attempt = @ + 1]
        ELSE IF ~ Caught(outcome.error, f.exceptions)
             THEN [g EXCEPT !.status = "raised", !.error = outcome.error]
        ELSE IF f.attempt = f.max_attempts - 1
             THEN [g EXCEPT !.status = "raised", !.error = outcome.error]
        ELSE [g EXCEPT !.sleeps = Append(@, WaitTime(f.delay, f.backoff, f.attempt, jitter)),
                       !.attempt = @ + 1]

\* one iteration of the loop: func was called and ended with outcome, which is
\* [ok |-> TRUE, value |-> v] or [ok |-> FALSE, error |-> e]; result is <<v>> once
\* the wrapper has returned v
AfterCall(f, outcome, jitter) ==
    LET g == [f EXCEPT !.calls = @ + 1]
    IN  IF outcome.ok THEN [g EXCEPT !.status = "returned", !.result = <<outcome.value>>]
        ELSE IF ~ Caught(outcome.error, f.exceptions)
             THEN [g EXCEPT !.status = "raised", !.error = outcome.error]
        ELSE IF f.attempt = f.max_attempts - 1
             THEN [g EXCEPT !.status = "raised", !.error = outcome.error]
        ELSE [g EXCEPT !.sleeps = Append(@, WaitTime(f.delay, f.backoff, f.attempt, jitter)),
                       !.attempt = @ + 1]

----------------------------------------------------------------------------
(* src/src/news/sources.py: GoogleNewsSource *)

\* NewsSource._generate_id: md5 of "{title}_{source}", kept as the hashed text
GenerateId(title, source) == title \o "_" \o source

\* GoogleNewsSource._parse_date at time t: the parsed date without its timezone,
\* or now when the text does not parse
ParseDate(date_str, t) ==
    IF IsIsoFormat(date_str) THEN FromIsoFormat(date_str)
    ELSE IF Len(date_str) > 1 /\ Char(date_str, Len(date_str)) = "Z"
            /\ IsIsoFormat(SubSeq(date_str, 1, Len(date_str) - 1))
         THEN FromIsoFormat(SubSeq(date_str, 1, Len(date_str) - 1))
    ELSE t

keywords == <<"tula", "tule", "tulsk", "oblast">>

RECURSIVE KeywordScore(_, _, _)
\* the loop over keywords: score += 0.3 for each keyword found
KeywordScore(title, summary, i) ==
    IF i > Len(keywords) THEN 0
    ELSE (IF Contains(title, keywords[i]) \/ Contains(summary, keywords[i]) THEN 3 ELSE 0)
         + KeywordScore(title, summary, i + 1)

Min(a, b) == IF a <= b THEN a ELSE b

Max(a, b) == IF a >= b THEN a ELSE b

\* CalculateRelevance without the final min/max
CalculateRelevanceUnclamped(entry, query) ==
    LET title    == Lower(DictGet(entry, "title", ""))
        summary  == Lower(DictGet(entry, "summary", ""))
        regions  == Split(Lower(query), ",")
        keyscore == KeywordScore(title, summary, 1)
    IN  IF \E i \in 1..Len(regions) :
               Contains(title, regions[i]) \/ Contains(summary, regions[i])
        THEN keyscore + 4 ELSE keyscore

\* CalculateRelevance with one increment for the keywords, however many are found
CalculateRelevanceKeywordsOnce(entry, query) ==
    LET title    == Lower(DictGet(entry, "title", ""))
        summary  == Lower(DictGet(entry, "summary", ""))
        regions  == Split(Lower(query), ",")
        keyscore == Min(3, KeywordScore(title, summary, 1))
        score    == IF \E i \in 1..Len(regions) :
                           Contains(title, regions[i]) \/ Contains(summary, regions[i])
                    THEN keyscore + 4 ELSE keyscore
    IN  Min(10, Max(0, score))

\* GoogleNewsSource._calculate_relevance
CalculateRelevance(entry, query) ==
    LET title    == Lower(DictGet(entry, "title", ""))
        summary  == Lower(DictGet(entry, "summary", ""))
        regions  == Split(Lower(query), ",")
        keyscore == KeywordScore(title, summary, 1)
        score    == IF \E i \in 1..Len(regions) :
                           Contains(title, regions[i]) \/ Contains(summary, regions[i])
                    THEN keyscore + 4 ELSE keyscore
    IN  Min(10, Max(0, score))

\* the body of the loop over entries for one entry: the article built from it, or
\* the exception that makes the loop skip it
BuildArticle(entry, query, t) ==
    IF "title" \notin DOMAIN entry THEN [ok |-> FALSE, error |-> "KeyError: title"]
    ELSE NewsArticle(GenerateId(entry["title"], DictGet(entry, "source", "unknown")),
                     DictGet(entry, "title", ""), DictGet(entry, "link", ""),
                     DictGet(entry, "source", "Unknown"),
                     ParseDate(DictGet(entry, "published", ""), t), None,
                     DictGet(entry, "summary", ""), "OTHER", default_region,
                     CalculateRelevance(entry, query))

\* Slice that takes every entry
SliceAll(seq, limit) == seq

\* seq[:limit]
Slice(seq, limit) ==
    IF limit >= 0 THEN SubSeq(seq, 1, Min(limit, Len(seq)))
    ELSE SubSeq(seq, 1, Len(seq) + limit)

RECURSIVE BuildArticles(_, _, _)
BuildArticles(entries, query, t) ==
    IF entries = <<>> THEN <<>>
    ELSE LET built == BuildArticle(Head(entries), query, t)
         IN  (IF built.ok THEN <<built.article>> ELSE <<>>)
             \o BuildArticles(Tail(entries), query, t)

\* Classify that looks for the fragments in the message as it is written
ClassifyCaseSensitive(msg) ==
    IF Contains(msg, "timeout") THEN Raise("TimeoutError", "Timeout: " \o msg)
    ELSE IF Contains(msg, "connection") \/ Contains(msg, "network")
         THEN Raise("ConnectionError", "Connection: " \o msg)
    ELSE Raise("NetworkError", "Search: " \o msg)

\* Classify without the except clause: the exception of the provider escapes as it is
ClassifyUnwrapped(msg) == Raise("Exception", msg)

\* the except clause of fetch_news: the class chosen from the message
Classify(msg) ==
    IF Contains(Lower(msg), "timeout") THEN Raise("TimeoutError", "Timeout: " \o msg)
    ELSE IF Contains(Lower(msg), "connection") \/ Contains(Lower(msg), "network")
         THEN Raise("ConnectionError", "Connection: " \o msg)
    ELSE Raise("NetworkError", "Search: " \o msg)

\* GoogleNewsSource.fetch_news without its decorator, for one outcome of
\* self.gn.search(query): [ok |-> TRUE, entries |-> ...] or [ok |-> FALSE, msg |-> ...]
FetchNewsBody(query, limit, search, t) ==
    IF search.ok
    THEN [ok |-> TRUE, value |-> BuildArticles(Slice(search.entries, limit), query, t)]
    ELSE [ok |-> FALSE, error |-> Classify(search.msg)]

\* @retry_on_failure(max_attempts=3, delay=2.0, exceptions=(TimeoutError, ConnectionError, NetworkError))
FetchNewsFrame ==
    NewFrame(3, 20, 2, {"TimeoutError", "ConnectionError", "NetworkError"})

----------------------------------------------------------------------------
(* The inputs of the model *)

\* the (query, limit) arguments of a call; an optional argument is <<>> for None
\* and <<v>> for the value v
CallArgs == {<< <<>>, <<>> >>, << <<>>, <<1>> >>, << <<"sport">>, <<1>> >>}

\* ttl_hours of the NewsCache instances that callers other than the collector make
TtlHours == {0, 1}

\* entries of the search provider's response
EntryTula ==
    [title |-> "Tula news", link |-> "https://tula.example/1", source |-> "RIA",
     published |-> "T0", summary |-> ""]

EntrySport ==
    [title |-> "Sport v Tule", link |-> "https://sport.example/2", source |-> "TASS",
     published |-> "T1Z", summary |-> "Tulskaya oblast"]

\* an entry whose title is too short for NewsArticle
EntryShort ==
    [title |-> "ab", link |-> "https://tula.example/3", source |-> "RIA",
     published |-> "T0", summary |-> ""]

\* an entry with the four keywords, one with none, and one without a title
EntryAllKeywords ==
    [title |-> "Tula, v Tule: Tulskaya oblast", link |-> "https://tula.example/4",
     source |-> "RIA", published |-> "T0", summary |-> "TULA"]

EntryNoKeyword ==
    [title |-> "Moskva news", link |-> "https://msk.example/5", source |-> "RIA",
     published |-> "T0", summary |-> "sport"]

EntryNoTitle == [link |-> "https://tula.example/6", source |-> "RIA", summary |-> "Tula"]

\* stories['entries'] of the responses of the provider
Responses ==
    {<<>>, <<EntryTula, EntrySport>>, <<EntryShort, EntrySport>>}

\* str(e) of the failures of self.gn.search
FailureMessages == {"Read Timeout", "connection reset", "boom"}

SearchOutcomes ==
    {[ok |-> TRUE, entries |-> r] : r \in Responses} \cup
    {[ok |-> FALSE, msg |-> m] : m \in FailureMessages}

\* random.uniform(0, 0.1) in tenths of a second: its two ends
Jitters == {0, 1}

(* src/src/news/collector.py, lines 35-39 *)
\* the query and limit of a call after "if query is None" and "if limit is None"
ResolveQuery(query) == IF query = <<>> THEN default_region ELSE query[1]

ResolveLimit(limit) == IF limit = <<>> THEN news_limit ELSE limit[1]

\* the resolved (query, limit) pairs of the calls
Keys == {<<ResolveQuery(a[1]), ResolveLimit(a[2])>> : a \in CallArgs}

\* the article lists fetch_news builds
Fetched ==
    {BuildArticles(Slice(r, k[2]), k[1], 0) : r \in Responses, k \in Keys}

\* the article lists a caller of NewsCache.put holds: those fetched for the default
\* query, the empty one included
ArticleLists ==
    {BuildArticles(Slice(r, news_limit), default_region, 0) : r \in Responses}


----------------------------------------------------------------------------
(* The pure functions of the model are evaluated once for each input of the model *)

\* the articles of the model
Articles == UNION {{articles[i] : i \in 1..Len(articles)} : articles \in Fetched}

\* the serialized articles of the model
Dicts == {ToDict(a) : a \in Articles}

\* a stored dict as to_dict writes it
GoodDict == ToDict(BuildArticle(EntryTula, default_region, 0).article)

\* d without the key
Without(d, key) == [k \in DOMAIN d \ {key} |-> d[k]]

\* stored dicts that to_dict does not write: a present title of two characters,
\* a present url without scheme, a present source of one character, a
\* relevance_score above 1.0, a published_at that is no ISO date, a category that
\* is no value of NewsCategory, and dicts with a key or all keys missing
DictShortTitle == [GoodDict EXCEPT !.title = "ab"]

DictNoScheme == [GoodDict EXCEPT !.url = "tula.example/1"]

DictShortSource == [GoodDict EXCEPT !.source = "R"]

DictBadScore == [GoodDict EXCEPT !.relevance_score = 15]

DictBadDate == [GoodDict EXCEPT !.published_at = "yesterday"]

DictBadCategory == [GoodDict EXCEPT !.category = "gossip"]

DictNoTitle == Without(GoodDict, "title")

DictNoUrl == Without(GoodDict, "url")

DictEmpty == [k \in {} |-> ""]

CorruptDicts ==
    {DictShortTitle, DictNoScheme, DictShortSource, DictBadScore, DictBadDate,
     DictBadCategory, DictNoTitle, DictNoUrl, DictEmpty}

\* the articles of a snapshot that the service reads: the first has the relevance
\* score 0.0
SnapshotArticles == BuildArticles(<<EntryNoKeyword, EntryTula, EntrySport>>, default_region, 0)

SnapshotDicts == {ToDict(SnapshotArticles[i]) : i \in DOMAIN SnapshotArticles}

FromDictTable ==
    [data \in Dicts \cup CorruptDicts \cup SnapshotDicts, t \in Times |-> FromDict(data, t)]

FromDictAt(data, t) == FromDictTable[data, t]

FetchNewsTable ==
    [k \in Keys, search \in SearchOutcomes, t \in Times |->
        FetchNewsBody(k[1], k[2], search, t)]

FetchNewsAt(query, limit, search, t) == FetchNewsTable[<<query, limit>>, search, t]

----------------------------------------------------------------------------
(* Files: a directory is a function from the names of its files to their content *)

\* a file holding the JSON document data
Json(data) == [kind |-> "json", data |-> data]

\* a file left truncated by a write that failed: not parseable
Truncated == [kind |-> "truncated"]

\* the outcomes of open(path, 'w') followed by json.dump
IoOutcomes == {"ok", "open_fails", "dump_fails"}

\* the outcomes of the snapshot write and the cache write of one collect: the cache
\* write happens only after a snapshot write that succeeded
IoPairs ==
    {<<"ok", io>> : io \in IoOutcomes} \cup {<<io, "ok">> : io \in IoOutcomes \ {"ok"}}

\* the directory after open(name, 'w') and json.dump(data) ended with outcome io
WriteFile(dir, name, data, io) ==
    IF io = "open_fails" THEN dir
    ELSE [n \in DOMAIN dir \cup {name} |->
            IF n # name THEN dir[n]
            ELSE IF io = "ok" THEN Json(data) ELSE Truncated]

\* the directory after the files in names are unlinked
Unlink(dir, names) == [n \in DOMAIN dir \ names |-> dir[n]]

----------------------------------------------------------------------------
(* src/src/news/cache.py *)

\* self.ttl = timedelta(hours=ttl_hours), in clock ticks
Ttl(hours) == hours * TicksPerHour

\* GetCacheKey without the limit
GetCacheKeyQueryOnly(query, limit) == query

\* NewsCache._get_cache_key: md5 of "{query}_{limit}", kept as the hashed text
GetCacheKey(query, limit) == query \o "_" \o ToString(limit)

\* NewsCache._get_cache_path
GetCachePath(cache_key) == "news_" \o cache_key \o ".json"

\* IsCacheValid with "<=" in place of "<"
IsCacheValidInclusive(dir, hours, cache_path, t) ==
    IF cache_path \notin DOMAIN dir THEN FALSE
    ELSE IF dir[cache_path].kind # "json" THEN FALSE
    ELSE LET cached_at == DictGet(dir[cache_path].data, "cached_at", "")
         IN  IF ~ IsIsoFormat(cached_at) THEN FALSE
             ELSE t - FromIsoFormat(cached_at) <= Ttl(hours)

\* NewsCache._is_cache_valid at time t
IsCacheValid(dir, hours, cache_path, t) ==
    IF cache_path \notin DOMAIN dir THEN FALSE
    ELSE IF dir[cache_path].kind # "json" THEN FALSE
    ELSE LET cached_at == DictGet(dir[cache_path].data, "cached_at", "")
         IN  IF ~ IsIsoFormat(cached_at) THEN FALSE
             ELSE t - FromIsoFormat(cached_at) < Ttl(hours)

NoneResult == [kind |-> "None"]

ListResult(articles) == [kind |-> "list", articles |-> articles]

\* RaiseResult with the error swallowed: an empty list is returned instead
RaiseResultSwallowed(e) == ListResult(<<>>)

RaiseResult(e) == [kind |-> "raise", error |-> e]

\* the list comprehension after its first element: head, then rest
Comprehended(head, rest) ==
    IF ~ head.ok THEN head
    ELSE IF ~ rest.ok THEN rest
    ELSE [ok |-> TRUE, articles |-> <<head.article>> \o rest.articles]

RECURSIVE FromDicts(_, _)
\* [NewsArticle.from_dict(d) for d in dicts]: the articles, or the first failure
FromDicts(dicts, t) ==
    IF dicts = <<>> THEN [ok |-> TRUE, articles |-> <<>>]
    ELSE Comprehended(FromDictAt(Head(dicts), t), FromDicts(Tail(dicts), t))

ToDicts(articles) == [i \in 1..Len(articles) |-> ToDict(articles[i])]

\* Loaded without the try/except of get: the failure goes to the caller
LoadedPropagates(loaded) ==
    IF loaded.ok THEN ListResult(loaded.articles) ELSE RaiseResult(loaded.error)

\* the try block of get: the articles, or None when an exception is caught
Loaded(loaded) == IF loaded.ok THEN ListResult(loaded.articles) ELSE NoneResult

\* NewsCache.get at time t
CacheGet(dir, hours, query, limit, t) ==
    LET cache_path == GetCachePath(GetCacheKey(query, limit))
    IN  IF ~ IsCacheValid(dir, hours, cache_path, t) THEN NoneResult
        ELSE IF "articles" \notin DOMAIN dir[cache_path].data THEN NoneResult
        ELSE Loaded(FromDicts(dir[cache_path].data.articles, t))

\* CacheAfterGet that removes the file of an entry it does not serve
CacheAfterGetUnlinked(dir, hours, query, limit, t) ==
    IF CacheGet(dir, hours, query, limit, t).kind = "list" THEN dir
    ELSE Unlink(dir, {GetCachePath(GetCacheKey(query, limit))})

\* the cache directory after NewsCache.get: _is_cache_valid and get open the file
\* with mode 'r' only, and write and unlink nothing
CacheAfterGet(dir, hours, query, limit, t) == dir

\* CachePut that keeps only the first article
CachePutFirstOnly(dir, query, limit, articles, t, io) ==
    IF articles = <<>> THEN dir
    ELSE WriteFile(dir, GetCachePath(GetCacheKey(query, limit)),
                   [query |-> query, limit |-> limit, cached_at |-> IsoFormat(t),
                    articles_count |-> 1, articles |-> ToDicts(SubSeq(articles, 1, 1))],
                   io)

\* CachePut without "if not articles: return"
CachePutEmptyToo(dir, query, limit, articles, t, io) ==
    WriteFile(dir, GetCachePath(GetCacheKey(query, limit)),
              [query |-> query, limit |-> limit, cached_at |-> IsoFormat(t),
               articles_count |-> Len(articles), articles |-> ToDicts(articles)],
              io)

\* CachePut that keeps the cached_at of an entry it overwrites
CachePutKeepsCachedAt(dir, query, limit, articles, t, io) ==
    IF articles = <<>> THEN dir
    ELSE WriteFile(dir, GetCachePath(GetCacheKey(query, limit)),
                   [query |-> query, limit |-> limit,
                    cached_at |-> IF GetCachePath(GetCacheKey(query, limit)) \in DOMAIN dir
                                     /\ dir[GetCachePath(GetCacheKey(query, limit))].kind = "json"
                                  THEN dir[GetCachePath(GetCacheKey(query, limit))].data.cached_at
                                  ELSE IsoFormat(t),
                    articles_count |-> Len(articles), articles |-> ToDicts(articles)],
                   io)

\* NewsCache.put at time t: the directory afterwards
CachePut(dir, query, limit, articles, t, io) ==
    IF articles = <<>> THEN dir
    ELSE WriteFile(dir, GetCachePath(GetCacheKey(query, limit)),
                   [query |-> query, limit |-> limit, cached_at |-> IsoFormat(t),
                    articles_count |-> Len(articles), articles |-> ToDicts(articles)],
                   io)

\* CacheClear whose glob pattern matches no file
CacheClearNothing(dir) == Unlink(dir, {})

\* NewsCache.clear: the directory afterwards
CacheClear(dir) == Unlink(dir, DOMAIN dir)

\* CacheCleanupExpired with the test inverted: the valid files are removed
CacheCleanupExpiredInverted(dir, hours, t) ==
    Unlink(dir, {n \in DOMAIN dir : IsCacheValid(dir, hours, n, t)})

\* NewsCache.cleanup_expired at time t: the directory afterwards
CacheCleanupExpired(dir, hours, t) ==
    Unlink(dir, {n \in DOMAIN dir : ~ IsCacheValid(dir, hours, n, t)})

----------------------------------------------------------------------------
(* src/src/news/collector.py *)

\* NewsCollector.__init__: self.cache = NewsCache(), whose ttl_hours defaults to 1
CollectorTtlHours == 1

\* "if cached_articles": one call of cache.get was made, and its result is
\* returned when it is a non-empty list
Lookup(cached_articles) ==
    [gets |-> 1,
     hit |-> cached_articles.kind = "list" /\ cached_articles.articles # <<>>,
     result |-> cached_articles]

\* CollectCached that never returns the cached articles
CollectCachedAlwaysMisses(dir, cached, query, limit, force_refresh, t) ==
    IF ~ force_refresh /\ cached
    THEN [gets |-> 1, hit |-> FALSE,
          result |-> CacheGet(dir, CollectorTtlHours, query, limit, t)]
    ELSE [gets |-> 0, hit |-> FALSE, result |-> NoneResult]

\* CollectCached that does not look at force_refresh
CollectCachedIgnoresForce(dir, cached, query, limit, force_refresh, t) ==
    IF cached
    THEN Lookup(CacheGet(dir, CollectorTtlHours, query, limit, t))
    ELSE [gets |-> 0, hit |-> FALSE, result |-> NoneResult]

\* the cache lookup of collect: the number of self.cache.get calls, whether the
\* cached articles are returned, and what get returned
CollectCached(dir, cached, query, limit, force_refresh, t) ==
    IF ~ force_refresh /\ cached
    THEN Lookup(CacheGet(dir, CollectorTtlHours, query, limit, t))
    ELSE [gets |-> 0, hit |-> FALSE, result |-> NoneResult]

\* a file name of config.storage_path: <prefix>_<time stamp>.<ext>, the time stamp
\* being strftime("%Y%m%d_%H%M%S") of the time t
FileName(prefix, t, ext) == [prefix |-> prefix, stamp |-> t, ext |-> ext]

\* storage_path / f"news_{timestamp}.json"
SnapshotName(t) == FileName("news", t, "json")

\* dir.glob("news_*.json")
GlobNews(dir) == {n \in DOMAIN dir : n.prefix = "news" /\ n.ext = "json"}

\* LatestFile that takes the first of the sorted names
LatestFileFirst(json_files) == CHOOSE n \in json_files : \A m \in json_files : n.stamp <= m.stamp

\* sorted(json_files)[-1]: the names have time stamps of one width, so that their
\* order is the order of the time stamps
LatestFile(json_files) == CHOOSE n \in json_files : \A m \in json_files : m.stamp <= n.stamp

\* NewsCollector._save_to_file at time t: the file it writes
SnapshotData(articles, t) ==
    [collected_at |-> IsoFormat(t), query |-> default_region,
     total_count |-> Len(articles), articles |-> ToDicts(articles)]

\* NewsCollector._save_to_file at time t: the directory afterwards; the file is
\* named by the time stamp
SaveToFile(dir, articles, t, io) ==
    WriteFile(dir, SnapshotName(t), SnapshotData(articles, t), io)

\* CollectStore without "if articles": an empty list is saved too
CollectStoreSavesEmpty(snapshots, dir, cached, c, articles, t, io_save, io_put) ==
    IF io_save # "ok"
    THEN [storage |-> SaveToFile(snapshots, articles, t, io_save), cache_dir |-> dir,
          result |-> RaiseResult(Raise("OSError", io_save))]
    ELSE [storage |-> SaveToFile(snapshots, articles, t, io_save),
          cache_dir |-> IF cached THEN CachePut(dir, c.query, c.limit, articles, t, io_put)
                        ELSE dir,
          result |-> ListResult(articles)]

\* CollectStore with the cache entry written before the snapshot
CollectStoreCachesFirst(snapshots, dir, cached, c, articles, t, io_save, io_put) ==
    IF articles = <<>>
    THEN [storage |-> snapshots, cache_dir |-> dir, result |-> ListResult(articles)]
    ELSE [storage |-> SaveToFile(snapshots, articles, t, io_save),
          cache_dir |-> IF cached THEN CachePut(dir, c.query, c.limit, articles, t, io_put)
                        ELSE dir,
          result |-> IF io_save # "ok" THEN RaiseResult(Raise("OSError", io_save))
                     ELSE ListResult(articles)]

\* CollectStore that drops the entry of the key when nothing was fetched
CollectStoreDropsOnEmpty(snapshots, dir, cached, c, articles, t, io_save, io_put) ==
    IF articles = <<>>
    THEN [storage |-> snapshots,
          cache_dir |-> Unlink(dir, {GetCachePath(GetCacheKey(c.query, c.limit))}),
          result |-> ListResult(articles)]
    ELSE IF io_save # "ok"
    THEN [storage |-> SaveToFile(snapshots, articles, t, io_save), cache_dir |-> dir,
          result |-> RaiseResult(Raise("OSError", io_save))]
    ELSE [storage |-> SaveToFile(snapshots, articles, t, io_save),
          cache_dir |-> IF cached THEN CachePut(dir, c.query, c.limit, articles, t, io_put)
                        ELSE dir,
          result |-> ListResult(articles)]

\* what collect does with the articles fetch_news returned, at time t: the
\* snapshot directory and the cache directory afterwards, and what collect returns
\* or raises
CollectStore(snapshots, dir, cached, c, articles, t, io_save, io_put) ==
    IF articles = <<>>
    THEN [storage |-> snapshots, cache_dir |-> dir, result |-> ListResult(articles)]
    ELSE IF io_save # "ok"
    THEN [storage |-> SaveToFile(snapshots, articles, t, io_save), cache_dir |-> dir,
          result |-> RaiseResult(Raise("OSError", io_save))]
    ELSE [storage |-> SaveToFile(snapshots, articles, t, io_save),
          cache_dir |-> IF cached THEN CachePut(dir, c.query, c.limit, articles, t, io_put)
                        ELSE dir,
          result |-> ListResult(articles)]

\* the list comprehension of load_latest: its exception is not caught
LoadedOrRaised(loaded) ==
    IF loaded.ok THEN ListResult(loaded.articles)
    ELSE RaiseResult(Raise("ValueError", loaded.error))

\* NewsCollector.load_latest at time t
LoadLatest(dir, t) ==
    IF GlobNews(dir) = {} THEN ListResult(<<>>)
    ELSE IF dir[LatestFile(GlobNews(dir))].kind # "json"
    THEN RaiseResult(Raise("ValueError", "JSONDecodeError"))
    ELSE LoadedOrRaised(FromDicts(dir[LatestFile(GlobNews(dir))].data.articles, t))

----------------------------------------------------------------------------
(* services/news_service.py *)

\* the length of a day on the clock
TicksPerDay == 24 * TicksPerHour

\* timedelta.days of a difference of two times: whole days, rounded down
Days(delta) == delta \div TicksPerDay

\* Kept without the test of the relevance
KeptWhateverRelevance(article, t) ==
    /\ ~ (Falsy(article.title) \/ Len(Strip(article.title)) < 5)
    /\ ~ (Days(t - article.published_at) > 7)

\* the tests of the loop of _filter_articles at time t: the article is kept
Kept(article, t) ==
    /\ ~ (Falsy(article.title) \/ Len(Strip(article.title)) < 5)
    /\ ~ (Days(t - article.published_at) > 7)
    /\ ~ (article.relevance_score < 1)

\* NewsService._filter_articles at time t
FilterArticles(articles, t) == SelectSeq(articles, LAMBDA a : Kept(a, t))

\* the sort key of _sort_articles is greater for a than for b
KeyGreater(a, b) ==
    \/ a.relevance_score > b.relevance_score
    \/ a.relevance_score = b.relevance_score /\ a.published_at > b.published_at

RECURSIVE InsertSorted(_, _)
\* a put into the sorted sequence s behind the articles whose key is not less
InsertSorted(a, s) ==
    IF s = <<>> THEN <<a>>
    ELSE IF KeyGreater(a, Head(s)) THEN <<a>> \o s
    ELSE <<Head(s)>> \o InsertSorted(a, Tail(s))

RECURSIVE SortedFrom(_, _)
SortedFrom(articles, s) ==
    IF articles = <<>> THEN s ELSE SortedFrom(Tail(articles), InsertSorted(Head(articles), s))

\* SortArticles in the order of the list, without sorting
SortArticlesAsGiven(articles) == articles

\* NewsService._sort_articles: sorted(..., reverse=True), a stable sort by
\* (relevance_score, published_at), greatest first
SortArticles(articles) == SortedFrom(articles, <<>>)

\* NewsService.collect_news given what self.collector.collect returned at time t
CollectNews(collected, t) == SortArticles(FilterArticles(collected, t))

\* the end of get_latest_news once load_latest has returned or raised
SortedSlice(latest, limit) ==
    IF latest.kind = "list" THEN ListResult(SortArticles(Slice(latest.articles, limit)))
    ELSE latest

\* NewsService.get_latest_news(limit) over the snapshot directory dir at time t
GetLatestNews(dir, limit, t) == SortedSlice(LoadLatest(dir, t), limit)

\* the formats of export_news
ExportFormats == {"json", "csv", "txt"}

\* what _export_json, _export_csv and _export_txt write for the articles at time t
ExportContent(fmt, articles, t) ==
    IF fmt = "json"
    THEN Json([exported_at |-> IsoFormat(t), total_count |-> Len(articles),
               articles |-> ToDicts(articles)])
    ELSE [kind |-> fmt, total_count |-> Len(articles),
          rows |-> [i \in 1..Len(articles) |->
                      <<articles[i].title, articles[i].url, articles[i].source,
                        articles[i].published_at, NewsCategory[articles[i].category],
                        articles[i].relevance_score, articles[i].region>>]]

\* open(filename, 'w') and the writes of an export at time t: the directory
\* afterwards, and the path returned or the error raised
ExportWritten(dir, fmt, articles, t, io) ==
    [storage |-> IF io = "open_fails" THEN dir
                 ELSE [n \in DOMAIN dir \cup {FileName("export", t, fmt)} |->
                         IF n # FileName("export", t, fmt) THEN dir[n]
                         ELSE IF io = "ok" THEN ExportContent(fmt, articles, t)
                         ELSE Truncated],
     result |-> IF io = "ok" THEN [kind |-> "path", name |-> FileName("export", t, fmt)]
                ELSE RaiseResult(Raise("OSError", io))]

\* Exported that writes JSON when it does not know the format
ExportedJsonByDefault(dir, format_type, latest, t, io) ==
    IF latest.kind # "list" THEN [storage |-> dir, result |-> latest]
    ELSE IF Lower(format_type) \in ExportFormats
    THEN ExportWritten(dir, Lower(format_type), latest.articles, t, io)
    ELSE ExportWritten(dir, "json", latest.articles, t, io)

\* the end of export_news once get_latest_news has returned or raised
Exported(dir, format_type, latest, t, io) ==
    IF latest.kind # "list" THEN [storage |-> dir, result |-> latest]
    ELSE IF Lower(format_type) \in ExportFormats
    THEN ExportWritten(dir, Lower(format_type), latest.articles, t, io)
    ELSE [storage |-> dir,
          result |-> RaiseResult(Raise("ValueError", "format: " \o format_type))]

\* NewsService.export_news(format_type, limit) over the directory dir at time t
ExportNews(dir, format_type, limit, t, io) ==
    Exported(dir, format_type, GetLatestNews(dir, limit, t), t, io)

\* the names of the sources of NewsSourceFactory
SourceTypes == {"google"}

\* NewsSourceFactory.create_source(source_type)
CreateSource(source_type) ==
    IF source_type \notin SourceTypes
    THEN RaiseResult(Raise("ValueError", "source: " \o source_type))
    ELSE [kind |-> "source", class |-> "GoogleNewsSource"]

----------------------------------------------------------------------------
(* The state machine *)

NoCall == [query |-> "", limit |-> 0, force_refresh |-> FALSE, gets |-> 0, fetches |-> 0]

\* the number of failed writes among the outcomes ios
Failed(ios) == Cardinality({i \in DOMAIN ios : ios[i] # "ok"})

IdleFrame == NewFrame(0, 0, 0, {})

\* the record of a completed operation: its name and what it returned or raised
Done(op, result) == [op |-> op, result |-> result]

Init ==
    /\ now = 0
    /\ cache_dir = <<>>
    /\ storage = <<>>
    /\ use_cache \in BOOLEAN
    /\ pc = "idle"
    /\ call = NoCall
    /\ retry = IdleFrame
    /\ trace = <<>>
    /\ last = Done("", NoneResult)
    /\ ops = 0
    /\ faults = 0

\* the clock advances
Tick ==
    /\ pc # "wrapper"
    /\ now < MaxTime
    /\ now' = now + 1
    /\ UNCHANGED <<cache_dir, storage, use_cache, pc, call, retry, trace, last, ops, faults>>

\* collect after its cache lookup ended with cached: it returns the cached
\* articles, or calls self.source.fetch_news(q, l)
AfterLookup(q, l, force_refresh, cached) ==
    IF cached.hit
    THEN /\ last' = Done("collect", cached.result)
         /\ UNCHANGED <<pc, call, retry>>
    ELSE /\ pc' = "fetching"
         /\ call' = [query |-> q, limit |-> l, force_refresh |-> force_refresh,
                     gets |-> cached.gets, fetches |-> 1]
         /\ retry' = EnterWrapper(FetchNewsFrame)
         /\ UNCHANGED last

\* NewsCollector.collect up to its call of
\* self.source.fetch_news: on a cache hit it returns, otherwise it enters the retry
\* wrapper of fetch_news. The frame counts the calls of self.cache.get (gets) and
\* of self.source.fetch_news (fetches).
DoCollect(query, limit, force_refresh) ==
    /\ pc = "idle"
    /\ ops < MaxOps
    /\ ops' = ops + 1
    /\ AfterLookup(ResolveQuery(query), ResolveLimit(limit), force_refresh,
                   CollectCached(cache_dir, use_cache, ResolveQuery(query),
                                 ResolveLimit(limit), force_refresh, now))
    /\ UNCHANGED <<now, cache_dir, storage, use_cache, trace, faults>>

\* the end of collect once fetch_news has returned: stored is what CollectStore
\* made of the articles
Returned(stored) ==
    /\ storage' = stored.storage
    /\ cache_dir' = stored.cache_dir
    /\ last' = Done("collect", stored.result)
    /\ pc' = "idle"
    /\ call' = NoCall
    /\ retry' = IdleFrame

\* AfterAttempt with a collect that drops the cache when fetch_news raises
AfterAttemptClearsOnFailure(f, io_save, io_put) ==
    CASE f.status = "running" ->
           /\ Failed(<<io_save, io_put>>) = 0
           /\ retry' = f
           /\ UNCHANGED <<cache_dir, storage, pc, call, last>>
      [] f.status = "raised" ->
           /\ Failed(<<io_save, io_put>>) = 0
           /\ last' = Done("collect", RaiseResult(f.error))
           /\ pc' = "idle"
           /\ call' = NoCall
           /\ retry' = IdleFrame
           /\ cache_dir' = CacheClear(cache_dir)
           /\ UNCHANGED storage
      [] f.status = "returned" ->
           /\ f.result[1] = <<>> => Failed(<<io_save, io_put>>) = 0
           /\ ~ use_cache => io_put = "ok"
           /\ Returned(CollectStore(storage, cache_dir, use_cache, call, f.result[1],
                                    now, io_save, io_put))

\* collect after one attempt of the wrapper of fetch_news left the frame f
AfterAttempt(f, io_save, io_put) ==
    CASE f.status = "running" ->
           /\ Failed(<<io_save, io_put>>) = 0
           /\ retry' = f
           /\ UNCHANGED <<cache_dir, storage, pc, call, last>>
      [] f.status = "raised" ->
           /\ Failed(<<io_save, io_put>>) = 0
           /\ last' = Done("collect", RaiseResult(f.error))
           /\ pc' = "idle"
           /\ call' = NoCall
           /\ retry' = IdleFrame
           /\ UNCHANGED <<cache_dir, storage>>
      [] f.status = "returned" ->
           /\ f.result[1] = <<>> => Failed(<<io_save, io_put>>) = 0
           /\ ~ use_cache => io_put = "ok"
           /\ Returned(CollectStore(storage, cache_dir, use_cache, call, f.result[1],
                                    now, io_save, io_put))

\* one attempt of the retry wrapper of fetch_news: self.gn.search ends with the
\* outcome search; the wrapper then sleeps before its next attempt, or raises and
\* so does collect, or returns and collect runs to its end. A write fails only
\* where collect makes it.
DoFetch(search, jitter, io_save, io_put) ==
    /\ pc = "fetching"
    /\ retry.status = "running"
    /\ faults + Failed(<<io_save, io_put>>) <= MaxFaults
    /\ faults' = faults + Failed(<<io_save, io_put>>)
    /\ AfterAttempt(AfterCall(retry, FetchNewsAt(call.query, call.limit, search, now),
                              jitter),
                    io_save, io_put)
    /\ UNCHANGED <<now, use_cache, trace, ops>>

\* NewsCache.put
DoPut(key, articles, io) ==
    /\ pc = "idle"
    /\ ops < MaxOps
    /\ ops' = ops + 1
    /\ articles = <<>> => io = "ok"
    /\ faults + Failed(<<io>>) <= MaxFaults
    /\ faults' = faults + Failed(<<io>>)
    /\ cache_dir' = CachePut(cache_dir, key[1], key[2], articles, now, io)
    /\ last' = Done("put", NoneResult)
    /\ UNCHANGED <<now, storage, use_cache, pc, call, retry, trace>>

\* NewsCache.get of a cache made with ttl_hours = hours
DoGet(key, hours) ==
    /\ pc = "idle"
    /\ ops < MaxOps
    /\ ops' = ops + 1
    /\ last' = Done("get", CacheGet(cache_dir, hours, key[1], key[2], now))
    /\ cache_dir' = CacheAfterGet(cache_dir, hours, key[1], key[2], now)
    /\ UNCHANGED <<now, storage, use_cache, pc, call, retry, trace, faults>>

\* NewsCache.clear, which NewsCollector.clear_cache calls
DoClear ==
    /\ pc = "idle"
    /\ ops < MaxOps
    /\ ops' = ops + 1
    /\ cache_dir' = CacheClear(cache_dir)
    /\ last' = Done("clear", NoneResult)
    /\ UNCHANGED <<now, storage, use_cache, pc, call, retry, trace, faults>>

\* NewsCache.cleanup_expired of a cache made with ttl_hours = hours
DoCleanupExpired(hours) ==
    /\ pc = "idle"
    /\ ops < MaxOps
    /\ ops' = ops + 1
    /\ cache_dir' = CacheCleanupExpired(cache_dir, hours, now)
    /\ last' = Done("cleanup_expired", NoneResult)
    /\ UNCHANGED <<now, storage, use_cache, pc, call, retry, trace, faults>>

\* NewsCollector.load_latest
DoLoadLatest ==
    /\ pc = "idle"
    /\ ops < MaxOps
    /\ ops' = ops + 1
    /\ last' = Done("load_latest", LoadLatest(storage, now))
    /\ UNCHANGED <<now, cache_dir, storage, use_cache, pc, call, retry, trace, faults>>

\* The jitter of the sleeps does not reach the collector: its values are explored
\* in SpecRetry.
Next ==
    \/ Tick
    \/ \E a \in CallArgs, force_refresh \in BOOLEAN :
          DoCollect(a[1], a[2], force_refresh)
    \/ \E m \in FailureMessages :
          DoFetch([ok |-> FALSE, msg |-> m], 0, "ok", "ok")
    \/ \E r \in Responses, io \in IoPairs :
          DoFetch([ok |-> TRUE, entries |-> r], 0, io[1], io[2])
    \/ \E key \in Keys, articles \in ArticleLists, io \in IoOutcomes :
          DoPut(key, articles, io)
    \/ \E key \in Keys, hours \in TtlHours : DoGet(key, hours)
    \/ DoClear
    \/ \E hours \in TtlHours : DoCleanupExpired(hours)
    \/ DoLoadLatest

Spec == Init /\ [][Next]_vars

----------------------------------------------------------------------------
(* retry_on_failure around an arbitrary function: the specification SpecRetry *)

\* the outcomes of one call of the wrapped function
FuncOutcomes ==
    {[ok |-> TRUE, value |-> "success"],
     [ok |-> FALSE, error |-> Raise("ConnectionError", "Temporary failure")],
     [ok |-> FALSE, error |-> Raise("NetworkError", "Permanent failure")],
     [ok |-> FALSE, error |-> Raise("TimeoutError", "Timed out")],
     [ok |-> FALSE, error |-> Raise("ValueError", "Different error type")]}

\* the exceptions argument of the decorator: its default, the one of the tests and
\* the one of fetch_news
ExceptionSets ==
    {{"Exception"}, {"TimeoutError"}, {"TimeoutError", "ConnectionError", "NetworkError"}}

\* a function decorated with @retry_on_failure(max_attempts, delay=0.1, backoff=2.0,
\* exceptions) is called
InitRetry ==
    /\ now = 0
    /\ cache_dir = <<>>
    /\ storage = <<>>
    /\ use_cache = TRUE
    /\ pc = "wrapper"
    /\ call = NoCall
    /\ retry \in {EnterWrapper(NewFrame(n, 1, 2, e)) : n \in 0..MaxAttempts, e \in ExceptionSets}
    /\ trace = <<>>
    /\ last = Done("", NoneResult)
    /\ ops = 0
    /\ faults = 0

\* one iteration of the wrapper's loop: func is called and ends with outcome
DoCall(outcome, jitter) ==
    /\ pc = "wrapper"
    /\ retry.status = "running"
    /\ retry' = AfterCall(retry, outcome, jitter)
    /\ trace' = Append(trace, outcome)
    /\ UNCHANGED <<now, cache_dir, storage, use_cache, pc, call, last, ops, faults>>

NextRetry == \E outcome \in FuncOutcomes, jitter \in Jitters : DoCall(outcome, jitter)

SpecRetry == InitRetry /\ [][NextRetry]_vars

----------------------------------------------------------------------------
(* Claims about retry_on_failure, checked under SpecRetry *)

\* every call made so far failed with an error the wrapper catches
AllRetryable ==
    \A i \in 1..Len(trace) : ~ trace[i].ok /\ Caught(trace[i].error, retry.exceptions)

\* C6: a function wrapped with max_attempts = N >= 1 whose every call fails with a
\* retryable error is called exactly N times: the wrapper is still running before
\* the N-th call, and after it the wrapper has raised the error of the last call,
\* unchanged
RetryExhaustedAfterN ==
    (pc = "wrapper" /\ retry.max_attempts >= 1 /\ AllRetryable) =>
        /\ retry.calls = Len(trace)
        /\ retry.calls <= retry.max_attempts
        /\ retry.calls < retry.max_attempts => retry.status = "running"
        /\ retry.calls = retry.max_attempts =>
              /\ retry.status = "raised"
              /\ retry.error = trace[Len(trace)].error

\* a run of MaxAttempts calls that failed with different retryable errors is over
RetryExhaustedReached ==
    /\ pc = "wrapper"
    /\ retry.max_attempts = MaxAttempts
    /\ AllRetryable
    /\ retry.status = "raised"
    /\ Len(trace) = MaxAttempts
    /\ trace[1] # trace[Len(trace)]

\* C7: when the first call raises an error that is not in the retryable set, the
\* wrapper raises it after that one call, without a sleep, whatever max_attempts is
NonRetryablePropagates ==
    (pc = "wrapper" /\ trace # <<>> /\ ~ trace[1].ok
       /\ ~ Caught(trace[1].error, retry.exceptions)) =>
        /\ retry.status = "raised"
        /\ retry.error = trace[1].error
        /\ retry.calls = 1
        /\ Len(trace) = 1
        /\ retry.sleeps = <<>>

\* a wrapper with several attempts has raised a ValueError it does not retry
NonRetryableReached ==
    /\ pc = "wrapper"
    /\ retry.max_attempts = MaxAttempts
    /\ retry.exceptions = {"TimeoutError"}
    /\ retry.status = "raised"
    /\ trace = <<[ok |-> FALSE, error |-> Raise("ValueError", "Different error type")]>>

\* C8: a call that succeeds is the last call: if the first k calls fail with
\* retryable errors and call k + 1 succeeds, the wrapper has returned its result
\* after k + 1 calls and k sleeps
SuccessEndsRetry ==
    pc = "wrapper" =>
        \A i \in 1..Len(trace) :
            trace[i].ok =>
                /\ i = Len(trace)
                /\ i <= retry.max_attempts
                /\ \A j \in 1..(i - 1) :
                      ~ trace[j].ok /\ Caught(trace[j].error, retry.exceptions)
                /\ retry.status = "returned"
                /\ retry.result = <<trace[i].value>>
                /\ retry.calls = i
                /\ Len(retry.sleeps) = i - 1

\* a wrapper has returned after MaxAttempts - 1 failures
SuccessAfterFailuresReached ==
    /\ pc = "wrapper"
    /\ retry.status = "returned"
    /\ Len(trace) = MaxAttempts
    /\ retry.calls = MaxAttempts

----------------------------------------------------------------------------
(* Claims about NewsCollector.collect, checked under Spec *)

\* the cache file of the resolved (query, limit) of the collect arguments a
EntryPath(a) == GetCachePath(GetCacheKey(ResolveQuery(a[1]), ResolveLimit(a[2])))

\* the search outcome of a provider that answers with the entries r
Answer(r) == [ok |-> TRUE, entries |-> r]

\* C1: a collect without force_refresh that finds a valid cache entry for its
\* resolved (query, limit) returns the articles stored in that entry, in their
\* order, without entering fetch_news and without touching the snapshot directory
CacheHitReturnsCached ==
    [][\A a \in CallArgs :
          (/\ DoCollect(a[1], a[2], FALSE)
           /\ use_cache
           /\ IsCacheValid(cache_dir, CollectorTtlHours, EntryPath(a), now))
          => /\ last'.op = "collect"
             /\ last'.result.kind = "list"
             /\ ToDicts(last'.result.articles) = cache_dir[EntryPath(a)].data.articles
             /\ pc' = "idle"
             /\ call' = NoCall
             /\ retry' = IdleFrame
             /\ storage' = storage
             /\ cache_dir' = cache_dir]_vars

\* a collect has returned two articles while no snapshot was ever written: they
\* came from the cache
CacheHitReached ==
    /\ use_cache
    /\ pc = "idle"
    /\ last.op = "collect"
    /\ last.result.kind = "list"
    /\ Len(last.result.articles) = 2
    /\ storage = <<>>

\* C2: collect with force_refresh = True makes no call of cache.get and enters
\* fetch_news once, whether or not the cache holds a valid entry for its key; no
\* second fetch_news is entered while the call lasts
ForcedRefreshFetches ==
    [][/\ \A a \in CallArgs :
             DoCollect(a[1], a[2], TRUE) =>
                /\ pc' = "fetching"
                /\ retry' = EnterWrapper(FetchNewsFrame)
                /\ call'.gets = 0
                /\ call'.fetches = 1
                /\ last' = last
       /\ (pc = "fetching" /\ pc' = "fetching") => call' = call]_vars

\* a forced collect is in fetch_news while the cache holds a valid entry for its key
ForcedRefreshReached ==
    /\ use_cache
    /\ pc = "fetching"
    /\ call.force_refresh
    /\ IsCacheValid(cache_dir, CollectorTtlHours,
                    GetCachePath(GetCacheKey(call.query, call.limit)), now)

\* C3: when fetch_news returns no article, collect returns the empty list and
\* leaves the snapshot directory and the cache directory as they were
EmptyFetchStoresNothing ==
    [][\A r \in Responses :
          (/\ DoFetch(Answer(r), 0, "ok", "ok")
           /\ FetchNewsAt(call.query, call.limit, Answer(r), now).value = <<>>)
          => /\ storage' = storage
             /\ cache_dir' = cache_dir
             /\ last' = Done("collect", ListResult(<<>>))
             /\ pc' = "idle"]_vars

\* a collect has returned the empty list
EmptyFetchReached ==
    /\ pc = "idle"
    /\ last = Done("collect", ListResult(<<>>))

\* C4: a failure of the search never makes collect return a list: while the
\* retry wrapper has attempts left collect stays in fetch_news, and when the
\* failing call was the last attempt collect raises the error of that call; no
\* file is written
FetchFailurePropagates ==
    [][\A m \in FailureMessages :
          DoFetch([ok |-> FALSE, msg |-> m], 0, "ok", "ok") =>
             /\ storage' = storage
             /\ cache_dir' = cache_dir
             /\ IF retry.calls + 1 < retry.max_attempts
                THEN pc' = "fetching" /\ last' = last
                ELSE /\ pc' = "idle"
                     /\ last'.op = "collect"
                     /\ last'.result.kind = "raise"
                     /\ last'.result.error = Classify(m)]_vars

\* a collect has raised the error of fetch_news
FetchFailureReached ==
    /\ pc = "idle"
    /\ last.op = "collect"
    /\ last.result.kind = "raise"
    /\ last.result.error.cls \in {"TimeoutError", "ConnectionError", "NetworkError"}

\* C5: a collect without force_refresh that starts from an empty cache directory,
\* fetches a non-empty list A and writes its files without a failure returns A,
\* leaves one snapshot file more than there was, and leaves a cache entry from
\* which cache.get, and so the next collect for the same key, gets A
FirstCollectStores ==
    [][\A r \in Responses :
          LET A == FetchNewsAt(call.query, call.limit, Answer(r), now).value
          IN  (/\ DoFetch(Answer(r), 0, "ok", "ok")
               /\ use_cache
               /\ ~ call.force_refresh
               /\ cache_dir = <<>>
               /\ A # <<>>)
              => /\ last' = Done("collect", ListResult(A))
                 /\ Cardinality(DOMAIN storage') = Cardinality(DOMAIN storage) + 1
                 /\ CacheGet(cache_dir', CollectorTtlHours, call.query, call.limit, now)
                       = ListResult(A)
                 /\ CollectCached(cache_dir', use_cache, call.query, call.limit,
                                  FALSE, now).hit]_vars

----------------------------------------------------------------------------
(* Claims about NewsCache, checked under Spec *)

PutEmptyIsNoOp ==
    [][\A key \in Keys :
          DoPut(key, <<>>, "ok") =>
             /\ cache_dir' = cache_dir
             /\ \A hours \in TtlHours :
                   CacheGet(cache_dir, hours, key[1], key[2], now) = NoneResult
                      => CacheGet(cache_dir', hours, key[1], key[2], now') = NoneResult]_vars

\* the first operation was a put of the empty list: no write failed and the cache
\* directory is empty
PutEmptyReached ==
    /\ pc = "idle"
    /\ ops = 1
    /\ last.op = "put"
    /\ faults = 0
    /\ cache_dir = <<>>

\* the cache file of key, a resolved (query, limit)
KeyPath(key) == GetCachePath(GetCacheKey(key[1], key[2]))

\* the file n of the cache directory dir is an entry as put writes it
IsEntry(dir, n) == n \in DOMAIN dir /\ dir[n].kind = "json"

\* the age at time t of the entry n of dir
Age(dir, n, t) == t - FromIsoFormat(dir[n].data.cached_at)

\* C11: at every time, a get(q, l) by a cache of any ttl_hours returns the articles
\* of the entry of (q, l) when the entry's age, now - cached_at, is less than the
\* ttl, and None when it is not: an entry whose age has reached the ttl, and any
\* entry under ttl_hours = 0, is not served
ServedIffYoungerThanTtl ==
    \A key \in Keys, hours \in TtlHours :
        IsEntry(cache_dir, KeyPath(key)) =>
            LET served == CacheGet(cache_dir, hours, key[1], key[2], now)
            IN  IF Age(cache_dir, KeyPath(key), now) < hours * TicksPerHour
                THEN /\ served.kind = "list"
                     /\ ToDicts(served.articles) = cache_dir[KeyPath(key)].data.articles
                ELSE served = NoneResult

\* a get has returned None for an entry written one tick earlier, whose age has
\* reached the ttl of one hour
ExpiredEntryReached ==
    /\ pc = "idle"
    /\ last = Done("get", NoneResult)
    /\ now = TicksPerHour
    /\ \E key \in Keys :
          /\ IsEntry(cache_dir, KeyPath(key))
          /\ Age(cache_dir, KeyPath(key), now) = TicksPerHour

\* what a get(key) by a cache of ttl_hours = hours returns from dir at time t
GetAt(dir, hours, key, t) == CacheGet(dir, hours, key[1], key[2], t)

\* C12: a put under one (query, limit), whatever its articles and whether or not
\* its write succeeds, leaves what get returns for every other (query, limit)
\* unchanged, for the same query with another limit in particular; and two
\* distinct (query, limit) pairs never share a cache file
DistinctKeysDistinctEntries ==
    [][\A key \in Keys, articles \in ArticleLists, io \in IoOutcomes :
          DoPut(key, articles, io) =>
              \A other \in Keys \ {key}, hours \in TtlHours :
                  /\ KeyPath(other) # KeyPath(key)
                  /\ GetAt(cache_dir', hours, other, now') = GetAt(cache_dir, hours, other, now)]_vars

\* a put has been made while the same query had an entry under another limit, and
\* both entries are in the cache, each under its own limit
TwoLimitsReached ==
    /\ last.op = "put"
    /\ \E key \in Keys, other \in Keys :
          /\ key[1] = other[1]
          /\ key[2] # other[2]
          /\ IsEntry(cache_dir, KeyPath(key))
          /\ IsEntry(cache_dir, KeyPath(other))
          /\ cache_dir[KeyPath(key)].data.limit = key[2]
          /\ cache_dir[KeyPath(other)].data.limit = other[2]
          /\ GetAt(cache_dir, 1, other, now).kind = "list"

\* C13: after a clear, and until the next operation, the cache directory holds no
\* file at all, whatever it held before (valid entries, expired entries, files of
\* a failed write), and a get returns None for every (query, limit) and every ttl
ClearRemovesEverything ==
    last.op = "clear" =>
        /\ DOMAIN cache_dir = {}
        /\ \A key \in Keys, hours \in TtlHours : GetAt(cache_dir, hours, key, now) = NoneResult

\* a clear has been made after a collect that fetched, saved a snapshot and wrote
\* its cache entry without a failure
ClearAfterStoreReached ==
    /\ last.op = "clear"
    /\ use_cache
    /\ faults = 0
    /\ DOMAIN storage # {}

\* the entry n of dir has not reached the ttl of hours at time t
Young(dir, hours, n, t) == IsEntry(dir, n) /\ Age(dir, n, t) < hours * TicksPerHour

\* C14 as stated: a cleanup_expired removes only entries whose ttl has elapsed,
\* keeps every valid entry, which get still returns, and removes every entry
\* whose ttl has elapsed
CleanupRemovesOnlyExpired ==
    [][\A hours \in TtlHours :
          DoCleanupExpired(hours) =>
              /\ \A n \in DOMAIN cache_dir \ DOMAIN cache_dir' :
                    IsEntry(cache_dir, n) /\ ~ Young(cache_dir, hours, n, now)
              /\ \A n \in DOMAIN cache_dir :
                    Young(cache_dir, hours, n, now) => n \in DOMAIN cache_dir'
              /\ \A n \in DOMAIN cache_dir :
                    IsEntry(cache_dir, n) /\ ~ Young(cache_dir, hours, n, now) => n \notin DOMAIN cache_dir']_vars

\* C14: after a cleanup_expired the cache directory holds exactly the entries that
\* were valid at the call, with their content unchanged, and get returns them as
\* before; every other file is removed: the entries whose ttl has elapsed and also
\* the files that cannot be read as an entry, whose age plays no part
CleanupKeepsExactlyValid ==
    [][\A hours \in TtlHours :
          DoCleanupExpired(hours) =>
              /\ DOMAIN cache_dir' = {n \in DOMAIN cache_dir : Young(cache_dir, hours, n, now)}
              /\ \A n \in DOMAIN cache_dir' : cache_dir'[n] = cache_dir[n]
              /\ \A key \in Keys :
                    Young(cache_dir, hours, KeyPath(key), now) =>
                        /\ GetAt(cache_dir', hours, key, now').kind = "list"
                        /\ GetAt(cache_dir', hours, key, now') = GetAt(cache_dir, hours, key, now)]_vars

\* a cleanup_expired has emptied the cache after a collect that fetched and wrote
\* its cache entry without a failure
CleanupRemovedReached ==
    /\ last.op = "cleanup_expired"
    /\ use_cache
    /\ faults = 0
    /\ DOMAIN storage # {}
    /\ DOMAIN cache_dir = {}

----------------------------------------------------------------------------
(* The collector over a cache directory that holds a corrupt file: a file as
   another program, an older version or a failed write may leave it *)

\* the cache_data of put with the articles given as stored dicts
EntryData(dicts) ==
    [query |-> default_region, limit |-> news_limit, cached_at |-> IsoFormat(0),
     articles_count |-> Len(dicts), articles |-> dicts]

\* the corrupt files: one that does not parse, entries without cached_at, with a
\* cached_at that is no ISO date, without articles, and with an article that
\* from_dict cannot build
CorruptFiles ==
    {Truncated,
     Json(Without(EntryData(<<GoodDict>>), "cached_at")),
     Json([EntryData(<<GoodDict>>) EXCEPT !.cached_at = "yesterday"]),
     Json(Without(EntryData(<<GoodDict>>), "articles")),
     Json(EntryData(<<GoodDict, DictShortTitle>>)),
     Json(EntryData(<<DictNoScheme>>))}

\* the (query, limit) pairs whose cache file is corrupt at the start
CorruptKeys == {<<default_region, news_limit>>, <<default_region, 1>>}

InitCorrupt ==
    /\ now = 0
    /\ \E key \in CorruptKeys, file \in CorruptFiles :
          cache_dir = [n \in {KeyPath(key)} |-> file]
    /\ storage = <<>>
    /\ use_cache = TRUE
    /\ pc = "idle"
    /\ call = NoCall
    /\ retry = IdleFrame
    /\ trace = <<>>
    /\ last = Done("", NoneResult)
    /\ ops = 0
    /\ faults = 0

NextCorrupt ==
    \/ Tick
    \/ \E a \in CallArgs, force_refresh \in BOOLEAN :
          DoCollect(a[1], a[2], force_refresh)
    \/ \E m \in FailureMessages :
          DoFetch([ok |-> FALSE, msg |-> m], 0, "ok", "ok")
    \/ \E r \in Responses :
          DoFetch([ok |-> TRUE, entries |-> r], 0, "ok", "ok")
    \/ \E key \in Keys, hours \in TtlHours : DoGet(key, hours)

SpecCorrupt == InitCorrupt /\ [][NextCorrupt]_vars

\* the file n of dir is present and corrupt at time t: it does not parse, or
\* has no cached_at, or one that is no ISO date, or has no articles, or has an
\* article that from_dict raises on
Corrupt(dir, n, t) ==
    /\ n \in DOMAIN dir
    /\ \/ dir[n].kind # "json"
       \/ "cached_at" \notin DOMAIN dir[n].data
       \/ ~ IsIsoFormat(dir[n].data.cached_at)
       \/ "articles" \notin DOMAIN dir[n].data
       \/ \E i \in DOMAIN dir[n].data.articles : ~ FromDictAt(dir[n].data.articles[i], t).ok

\* C15: a get of a (query, limit) whose cache file is present and corrupt returns
\* None under every ttl and raises nothing; a collect without force_refresh of
\* such a (query, limit) makes its one cache.get and goes on to fetch_news, taking
\* the very step it takes when the file is absent, the cache file left as it is
CorruptEntryIsAMiss ==
    [][/\ \A key \in Keys, hours \in TtlHours :
             DoGet(key, hours) /\ Corrupt(cache_dir, KeyPath(key), now) =>
                 last' = Done("get", NoneResult)
       /\ \A a \in CallArgs :
             DoCollect(a[1], a[2], FALSE) /\ Corrupt(cache_dir, EntryPath(a), now) =>
                 /\ pc' = "fetching"
                 /\ call'.gets = 1
                 /\ call'.fetches = 1
                 /\ cache_dir' = cache_dir
                 /\ AfterLookup(ResolveQuery(a[1]), ResolveLimit(a[2]), FALSE,
                                CollectCached(Unlink(cache_dir, {EntryPath(a)}), use_cache,
                                              ResolveQuery(a[1]), ResolveLimit(a[2]), FALSE, now))]_vars

\* a collect without force_refresh has found the corrupt file of its (query, limit)
\* and is in fetch_news, the file still in the cache
CorruptThenFetchReached ==
    /\ pc = "fetching"
    /\ call.gets = 1
    /\ ~ call.force_refresh
    /\ Corrupt(cache_dir, KeyPath(<<call.query, call.limit>>), now)

----------------------------------------------------------------------------
(* The article model and the scorer as pure functions: each action applies one
   of them to inputs drawn from the sets below and records the inputs in call
   and the outcome in last *)

Titles == {"", "ab", " ab ", "abc", "   ", "Tula news"}

Urls == {"", "tula.example/1", "https://", "//tula.example/1", "https://tula.example/1"}

Sources == {"", "R", " R ", "RI", "RIA"}

\* relevance scores in tenths: -0.1, 0.0, 1.0, 1.1 and 1.5
Scores == {-1, 0, 10, 11, 15}

\* valid articles of every category, with and without content and summary
ValidArticles ==
    {NewsArticle("id1", "Tula news", "https://tula.example/1", "RIA", t, content, summary,
                 category, region, score).article :
        t \in Times, content \in {None, "text"}, summary \in {None, "", "sum"},
        category \in DOMAIN NewsCategory, region \in {DefaultArticleRegion, "Moskva"},
        score \in {0, 5, 10}}
    \cup Articles

ScoredEntries == {EntryTula, EntrySport, EntryShort, EntryAllKeywords, EntryNoKeyword, EntryNoTitle}

Queries == {default_region, "sport", "Tula", "kino,Sport", ""}

FetchedResponses ==
    Responses \cup {<<EntryTula, EntryShort, EntrySport>>, <<EntryNoTitle, EntryAllKeywords>>,
                    <<EntryTula, EntryTula>>}

Limits == {0, 1, 2, 3, news_limit}

InitArticle ==
    /\ now \in Times
    /\ cache_dir = <<>>
    /\ storage = <<>>
    /\ use_cache = FALSE
    /\ pc = "idle"
    /\ call = NoCall
    /\ retry = IdleFrame
    /\ trace = <<>>
    /\ last = Done("", NoneResult)
    /\ ops = 0
    /\ faults = 0

\* one function is applied in a behaviour: the rest of the state stays as it is
Applied ==
    /\ ops = 0
    /\ ops' = 1
    /\ UNCHANGED <<now, cache_dir, storage, use_cache, pc, retry, trace, faults>>

\* NewsArticle(...) with the given title, url, source and relevance_score
DoNewsArticle(title, url, source, relevance_score) ==
    /\ Applied
    /\ call' = [title |-> title, url |-> url, source |-> source, relevance_score |-> relevance_score]
    /\ last' = Done("NewsArticle",
                    NewsArticle("id1", title, url, source, now, None, None, "OTHER",
                                DefaultArticleRegion, relevance_score))

\* NewsArticle.from_dict(data)
DoFromDict(data) ==
    /\ Applied
    /\ call' = [data |-> data]
    /\ last' = Done("from_dict", FromDictAt(data, now))

\* NewsArticle.from_dict(a.to_dict())
DoRoundTrip(a) ==
    /\ Applied
    /\ call' = [article |-> a]
    /\ last' = Done("round_trip", FromDict(ToDict(a), now))

\* GoogleNewsSource._calculate_relevance(entry, query)
DoCalculateRelevance(entry, query) ==
    /\ Applied
    /\ call' = [entry |-> entry, query |-> query]
    /\ last' = Done("_calculate_relevance", CalculateRelevance(entry, query))

\* the body of fetch_news for a response of the provider
DoFetchNews(entries, query, limit) ==
    /\ Applied
    /\ call' = [entries |-> entries, query |-> query, limit |-> limit]
    /\ last' = Done("fetch_news", FetchNewsBody(query, limit, Answer(entries), now))

\* str(e) of the failures of the provider
ProviderMessages ==
    {"", "boom", "Read Timeout", "TIMEOUT", "time out", "connection reset",
     "Connection lost", "Network down", "timeout, connection", "no network: Timeout"}

\* the body of fetch_news when self.gn.search raises an exception of message msg
DoFetchNewsFails(msg, query, limit) ==
    /\ Applied
    /\ call' = [msg |-> msg, query |-> query, limit |-> limit]
    /\ last' = Done("fetch_news_fails", FetchNewsBody(query, limit, [ok |-> FALSE, msg |-> msg], now))

\* an article as the collector returns it, of the given id, title, time of
\* publication and relevance score
Item(id, title, published_at, relevance_score) ==
    NewsArticle(id, title, "https://tula.example/1", "RIA", published_at, None, None,
                "OTHER", DefaultArticleRegion, relevance_score).article

\* articles at and around the limits of the filter: titles of 4 and 5 characters,
\* scores 0.0 and 0.1, ages of 7 days, 7 days and a half, and 8 days at time 0;
\* and articles of equal score
CollectedArticles ==
    {Item("fresh", "Tula news", 0, 9), Item("four", " Tula ", 0, 9),
     Item("five", " Tula! ", 0, 5), Item("zero", "Tula news", 0, 0),
     Item("tenth", "Tula news", 0, 1), Item("week", "Tula news", 0 - 7 * TicksPerDay, 5),
     Item("week+", "Tula news", 0 - 7 * TicksPerDay - TicksPerDay \div 2, 5),
     Item("old", "Tula news", 0 - 8 * TicksPerDay, 9), Item("same", "Tula news", 0, 9)}

\* what self.collector.collect returns: the lists of at most two of these
\* articles, and one list of four
CollectorOutputs ==
    {<<>>} \cup {<<a>> : a \in CollectedArticles}
    \cup {<<a, b>> : a \in CollectedArticles, b \in CollectedArticles}
    \cup {<<Item("tenth", "Tula news", 0, 1), Item("week+", "Tula news", 0 - 7 * TicksPerDay - TicksPerDay \div 2, 5),
            Item("old", "Tula news", 0 - 8 * TicksPerDay, 9), Item("fresh", "Tula news", 0, 9)>>}

\* NewsService.collect_news(query, limit, force_refresh) with a collector whose
\* collect returns collected: the calls of collect it makes, and what it returns
DoCollectNews(query, limit, force_refresh, collected) ==
    /\ Applied
    /\ call' = [collected |-> collected, args |-> <<query, limit, force_refresh>>,
                collect_calls |-> << <<query, limit, force_refresh>> >>]
    /\ last' = Done("collect_news", CollectNews(collected, now))

NextArticle ==
    \/ \E a \in CallArgs, force_refresh \in BOOLEAN, collected \in CollectorOutputs :
          DoCollectNews(a[1], a[2], force_refresh, collected)
    \/ \E msg \in ProviderMessages, query \in {default_region, "sport"} :
          DoFetchNewsFails(msg, query, news_limit)
    \/ \E title \in Titles, url \in Urls, source \in Sources, score \in Scores :
          DoNewsArticle(title, url, source, score)
    \/ \E data \in Dicts \cup CorruptDicts : DoFromDict(data)
    \/ \E a \in ValidArticles : DoRoundTrip(a)
    \/ \E entry \in ScoredEntries, query \in Queries : DoCalculateRelevance(entry, query)
    \/ \E entries \in FetchedResponses, query \in Queries, limit \in Limits :
          DoFetchNews(entries, query, limit)

SpecArticle == InitArticle /\ [][NextArticle]_vars

\* C16: every score that _calculate_relevance returns is between 0 and 1 (0 and 10
\* tenths), and the article that fetch_news builds from the same entry and query
\* never fails the relevance check of the constructor
ScoreWithinBounds ==
    last.op = "_calculate_relevance" =>
        /\ 0 <= last.result
        /\ last.result <= 10
        /\ LET built == BuildArticle(call.entry, call.query, now)
           IN  built.ok \/ built.error # "ValueError: relevance"

\* the scorer has returned 1.0 for an entry whose keyword and region increments
\* add up to more than 1.0
ClampedScoreReached ==
    /\ last.op = "_calculate_relevance"
    /\ last.result = 10
    /\ KeywordScore(Lower(call.entry.title), Lower(call.entry.summary), 1) > 10

\* C17: NewsArticle(...) gives an article, with the fields it was given, exactly
\* when the title without its surrounding blanks has at least 3 characters, the
\* url has a scheme and a network location (the host part, netloc of urlparse),
\* the source without its surrounding blanks has at least 2 characters and the
\* relevance score is between 0 and 1; otherwise it raises a ValueError and
\* gives no article
ConstructionIffValid ==
    last.op = "NewsArticle" =>
        /\ last.result.ok <=>
              /\ Len(Strip(call.title)) >= 3
              /\ UrlScheme(call.url) # ""
              /\ UrlNetloc(call.url) # ""
              /\ Len(Strip(call.source)) >= 2
              /\ 0 <= call.relevance_score
              /\ call.relevance_score <= 10
        /\ last.result.ok =>
              /\ DOMAIN last.result = {"ok", "article"}
              /\ last.result.article.title = call.title
              /\ last.result.article.url = call.url
              /\ last.result.article.source = call.source
              /\ last.result.article.relevance_score = call.relevance_score
        /\ ~ last.result.ok =>
              /\ DOMAIN last.result = {"ok", "error"}
              /\ SubSeq(last.result.error, 1, 10) = "ValueError"

\* an article of a title of 3 characters and of the score 1.0 has been made
ShortestTitleReached ==
    /\ last.op = "NewsArticle"
    /\ last.result.ok
    /\ call.title = "abc"
    /\ call.relevance_score = 10

\* the stored dict data makes the constructor call in the try block of from_dict
\* raise
FailsValidation(data, t) ==
    \/ ~ IsIsoFormat(DictGet(data, "published_at", IsoFormat(t)))
    \/ ~ IsCategoryValue(DictGet(data, "category", "other"))
    \/ Validate([title |-> DictGet(data, "title", ""), url |-> DictGet(data, "url", ""),
                 source |-> DictGet(data, "source", ""),
                 relevance_score |-> DictGet(data, "relevance_score", 0)]) # "ok"

\* C18: from_dict returns an article for every stored dict, and for a stored dict
\* that fails validation the article has the relevance score 0
FromDictNeverRaises ==
    last.op = "from_dict" =>
        /\ last.result.ok
        /\ FailsValidation(call.data, now) => last.result.article.relevance_score = 0

\* C19: from_dict(a.to_dict()) is an article equal to a in every field, for every
\* valid article a
RoundTripIsIdentity ==
    last.op = "round_trip" =>
        /\ last.result.ok
        /\ last.result.article = call.article
        /\ \A f \in {"id", "title", "url", "source", "published_at", "content", "summary",
                     "category", "region", "relevance_score"} :
              last.result.article[f] = call.article[f]

\* an article with a content, a summary, a category other than the default, a
\* region other than the default and a score above 0 has made the round trip
FullArticleRoundTripReached ==
    /\ last.op = "round_trip"
    /\ call.article.content # None
    /\ call.article.summary = "sum"
    /\ call.article.category = "SPORT"
    /\ call.article.region # DefaultArticleRegion
    /\ call.article.relevance_score = 5
    /\ call.article.published_at # now

\* the indices, among the first min(limit, n) entries, of the entries from
\* which an article can be built
Passing(entries, query, limit, t) ==
    {i \in 1..Min(limit, Len(entries)) : BuildArticle(entries[i], query, t).ok}

\* value holds, in the order of the entries, the articles built from the entries
\* whose indices are in passing, and nothing else
TakenInOrder(value, passing, entries, query, t) ==
    /\ Len(value) = Cardinality(passing)
    /\ \A i \in passing :
          value[Cardinality({j \in passing : j <= i})] = BuildArticle(entries[i], query, t).article

\* C20: for a response e1..en and a limit >= 0, fetch_news returns one article for
\* each of the first min(limit, n) entries that passes the validation, in the
\* order of the entries, and nothing else: the k-th passing entry gives the k-th
\* article, so the result has at most limit articles and an entry that fails is
\* skipped without any effect on the others
FetchTakesFirstValid ==
    last.op = "fetch_news" =>
        /\ last.result.ok
        /\ Len(last.result.value) <= call.limit
        /\ TakenInOrder(last.result.value,
                        Passing(call.entries, call.query, call.limit, now),
                        call.entries, call.query, now)

\* a fetch has skipped the second of three entries, kept the first and the third,
\* and another one has cut the same response at its limit of two
SkippedAndCutReached ==
    /\ last.op = "fetch_news"
    /\ call.entries = <<EntryTula, EntryShort, EntrySport>>
    /\ \/ call.limit = 3 /\ Len(last.result.value) = 2
       \/ call.limit = 2 /\ Len(last.result.value) = 1

\* the message msg has the fragment frag in it, whatever the case of its letters
HasFragment(msg, frag) ==
    \E i \in 1..Len(msg) :
        i + Len(frag) - 1 <= Len(msg) /\ Lower(SubSeq(msg, i, i + Len(frag) - 1)) = frag

\* C21: when the provider fails with a message, fetch_news raises TimeoutError if
\* the message has "timeout" in it, otherwise ConnectionError if it has
\* "connection" or "network" in it, otherwise NetworkError, the case of the
\* letters of the message playing no part
FailureClassified ==
    last.op = "fetch_news_fails" =>
        /\ ~ last.result.ok
        /\ last.result.error.cls =
              IF HasFragment(call.msg, "timeout") THEN "TimeoutError"
              ELSE IF HasFragment(call.msg, "connection") \/ HasFragment(call.msg, "network")
                   THEN "ConnectionError"
              ELSE "NetworkError"

\* a failure whose message has "Timeout" with a capital letter has been
\* classified as TimeoutError
CapitalTimeoutReached ==
    /\ last.op = "fetch_news_fails"
    /\ call.msg = "Read Timeout"
    /\ last.result.error.cls = "TimeoutError"

\* this step is the end of a collect run that fetched a non-empty result and
\* saved it without a failed write
StoringRunEnds ==
    /\ pc = "fetching"
    /\ pc' = "idle"
    /\ last'.op = "collect"
    /\ last'.result.kind = "list"
    /\ last'.result.articles # <<>>

\* C22: a collect run that fetches a non-empty result adds one snapshot file, under
\* a name greater than every name already there, and leaves every snapshot file
\* already there as it was, also when the run before ended in the same second
EachRunWritesNewSnapshot ==
    [][StoringRunEnds =>
          /\ \E n \in DOMAIN storage' \ DOMAIN storage :
                /\ DOMAIN storage' = DOMAIN storage \cup {n}
                /\ \A m \in DOMAIN storage : m.stamp < n.stamp
          /\ \A m \in DOMAIN storage : storage'[m] = storage[m]]_vars

\* C23: the snapshot that a collect run writes has the resolved query of the run
\* as its query, the number of the fetched articles as its total_count and all
\* the fetched articles, in order, as its articles
SnapshotDescribesRun ==
    [][StoringRunEnds =>
          /\ SnapshotName(now) \in DOMAIN storage'
          /\ storage'[SnapshotName(now)].kind = "json"
          /\ storage'[SnapshotName(now)].data.query = call.query
          /\ storage'[SnapshotName(now)].data.total_count = Len(last'.result.articles)
          /\ storage'[SnapshotName(now)].data.articles = ToDicts(last'.result.articles)]_vars

\* this step is the end of a collect run whose snapshot write failed
SaveFails ==
    /\ pc = "fetching"
    /\ pc' = "idle"
    /\ last'.result.kind = "raise"
    /\ last'.result.error.cls = "OSError"

Count(a, s) == Cardinality({i \in DOMAIN s : s[i] = a})

\* the sequence s is ordered by relevance score, greatest first, and by time of
\* publication, latest first, among the articles of one score
Descending(s) ==
    \A i \in DOMAIN s, j \in DOMAIN s :
        i < j =>
            \/ s[i].relevance_score > s[j].relevance_score
            \/ s[i].relevance_score = s[j].relevance_score /\ s[i].published_at >= s[j].published_at

\* result holds the articles of collected that have the quality wanted, each as
\* many times as collected holds it, and no other
ExactlyThose(result, collected, wanted(_)) ==
    /\ \A i \in DOMAIN result : wanted(result[i])
    /\ \A i \in DOMAIN collected :
          wanted(collected[i]) => Count(collected[i], result) = Count(collected[i], collected)
    /\ \A i \in DOMAIN result : result[i] \in {collected[j] : j \in DOMAIN collected}

----------------------------------------------------------------------------
(* The service layer over the collector: NewsService and NewsSourceFactory *)

\* the snapshot directory at the start: empty, or with one snapshot
ServiceSnapshots == {<<>>, SaveToFile(<<>>, SnapshotArticles, 0, "ok")}

ServiceLimits == {1, news_limit}

FormatTypes == {"json", "CSV", "txt", "xml", ""}

SourceNames == {"google", "ria", "Google"}

InitService ==
    /\ now = 0
    /\ cache_dir = <<>>
    /\ storage \in ServiceSnapshots
    /\ use_cache = TRUE
    /\ pc = "idle"
    /\ call = NoCall
    /\ retry = IdleFrame
    /\ trace = <<>>
    /\ last = Done("", NoneResult)
    /\ ops = 0
    /\ faults = 0

\* the record of a completed operation of the service, with its arguments
DoneWith(op, args, result) == [op |-> op, args |-> args, result |-> result]

\* NewsService.get_latest_news(limit)
DoGetLatestNews(limit) ==
    /\ pc = "idle"
    /\ ops < MaxOps
    /\ ops' = ops + 1
    /\ last' = DoneWith("get_latest_news", <<limit>>, GetLatestNews(storage, limit, now))
    /\ UNCHANGED <<now, cache_dir, storage, use_cache, pc, call, retry, trace, faults>>

\* the state after export_news made exported of the directory
ExportEnds(format_type, limit, exported) ==
    /\ storage' = exported.storage
    /\ last' = DoneWith("export_news", <<format_type, limit>>, exported.result)

\* NewsService.export_news(format_type, limit)
DoExportNews(format_type, limit, io) ==
    /\ pc = "idle"
    /\ ops < MaxOps
    /\ ops' = ops + 1
    /\ faults + Failed(<<io>>) <= MaxFaults
    /\ faults' = faults + Failed(<<io>>)
    /\ ExportEnds(format_type, limit, ExportNews(storage, format_type, limit, now, io))
    /\ UNCHANGED <<now, cache_dir, use_cache, pc, call, retry, trace>>

\* NewsSourceFactory.create_source(source_type), as NewsCollector.__init__ calls it
DoCreateSource(source_type) ==
    /\ pc = "idle"
    /\ ops < MaxOps
    /\ ops' = ops + 1
    /\ last' = DoneWith("create_source", <<source_type>>, CreateSource(source_type))
    /\ UNCHANGED <<now, cache_dir, storage, use_cache, pc, call, retry, trace, faults>>

NextService ==
    \/ Tick
    \/ \E a \in CallArgs, force_refresh \in BOOLEAN :
          DoCollect(a[1], a[2], force_refresh)
    \/ \E m \in FailureMessages :
          DoFetch([ok |-> FALSE, msg |-> m], 0, "ok", "ok")
    \/ \E r \in Responses, io_save \in IoOutcomes :
          DoFetch([ok |-> TRUE, entries |-> r], 0, io_save, "ok")
    \/ DoClear
    \/ \E limit \in ServiceLimits : DoGetLatestNews(limit)
    \/ \E format_type \in FormatTypes, limit \in ServiceLimits, io \in IoOutcomes :
          DoExportNews(format_type, limit, io)
    \/ \E source_type \in SourceNames : DoCreateSource(source_type)

SpecService == InitService /\ [][NextService]_vars

\* C25: a step changes the snapshot directory only when it is the end of a collect
\* run that saves its snapshot: no step of the cache, of the source or of the
\* service does
OnlyCollectorWritesSnapshots ==
    [][storage' # storage => StoringRunEnds \/ SaveFails]_vars

\* the step is a whole call of the operation op of the service
ServiceStep(op) == pc = "idle" /\ pc' = "idle" /\ ops' = ops + 1 /\ last'.op = op

\* C27: an export_news whose format, in lower case, is none of json, csv and txt
\* raises an error and leaves the snapshot directory, where the exports go, and
\* the cache as they were; a create_source of a name that is not a known source
\* raises ValueError, gives no source and changes nothing else: no provider call
\* is started and nothing is tried again
UnknownValueFailsAtOnce ==
    [][/\ ServiceStep("export_news") /\ Lower(last'.args[1]) \notin {"json", "csv", "txt"} =>
             /\ last'.result.kind = "raise"
             /\ last'.result.error.cls = "ValueError"
             /\ UNCHANGED <<storage, cache_dir, call, retry>>
       /\ ServiceStep("create_source") /\ last'.args[1] # "google" =>
             /\ last'.result.kind = "raise"
             /\ last'.result.error.cls = "ValueError"
             /\ DOMAIN last'.result = {"kind", "error"}
             /\ UNCHANGED <<storage, cache_dir, call, retry>>]_vars

\* an export in the format xml has raised ValueError over a directory that holds
\* a snapshot, and the directory holds no export
UnknownFormatReached ==
    /\ last.op = "export_news"
    /\ last.args[1] = "xml"
    /\ last.result.kind = "raise"
    /\ last.result.error.cls = "ValueError"
    /\ GlobNews(storage) # {}
    /\ DOMAIN storage = GlobNews(storage)

\* C29: get_latest_news returns articles of the latest snapshot that pass the
\* filter of the service only, by relevance score, greatest first
LatestNewsFiltered ==
    last.op = "get_latest_news" /\ last.result.kind = "list" =>
        /\ \A i \in DOMAIN last.result.articles : Kept(last.result.articles[i], now)
        /\ \A i \in DOMAIN last.result.articles, j \in DOMAIN last.result.articles :
              i < j => last.result.articles[i].relevance_score >= last.result.articles[j].relevance_score

\* C26: the articles that fetch_news returns have pairwise different ids: no two
\* of them have the same title and the same source
FetchedIdsDistinct ==
    last.op = "fetch_news" /\ last.result.ok =>
        \A i \in DOMAIN last.result.value, j \in DOMAIN last.result.value :
            i # j => last.result.value[i].id # last.result.value[j].id

----------------------------------------------------------------------------
(* collect and the retry wrapper of fetch_news under fairness: the
   specification SpecCollectFair *)

\* one attempt of the wrapper of fetch_news comes to its end: self.gn.search
\* returns or raises, and a time.sleep that follows it returns
AttemptEnds ==
    \/ \E m \in FailureMessages :
          DoFetch([ok |-> FALSE, msg |-> m], 0, "ok", "ok")
    \/ \E r \in Responses, io \in IoPairs :
          DoFetch([ok |-> TRUE, entries |-> r], 0, io[1], io[2])

NextCollect ==
    \/ Tick
    \/ \E a \in CallArgs, force_refresh \in BOOLEAN :
          DoCollect(a[1], a[2], force_refresh)
    \/ AttemptEnds

\* collect is one thread of control and the wrapper is a plain loop: a call of
\* the provider that returns and a sleep of finite length are followed by the next
\* step of the loop, so an attempt that can end does end
SpecCollectFair == Init /\ [][NextCollect]_vars /\ WF_vars(AttemptEnds)

\* the step ends a sequence of attempts that collect started
SequenceEnds == pc = "fetching" /\ pc' = "idle"

RetriedThrice(e) ==
    /\ e.cls \in {"TimeoutError", "ConnectionError", "NetworkError"}
    /\ Caught(e, retry.exceptions)
    /\ retry.max_attempts = 3
    /\ retry.calls < 2 =>
          /\ pc' = "fetching"
          /\ retry'.calls = retry.calls + 1
          /\ Len(retry'.sleeps) = retry'.calls
          /\ last' = last
    /\ retry.calls = 2 =>
          /\ pc' = "idle"
          /\ last' = Done("collect", RaiseResult(e))

\* C31: the error of a failed search is one of TimeoutError, ConnectionError and
\* NetworkError, which the wrapper of fetch_news retries: when the first or the
\* second call of a collect fails the wrapper sleeps and collect stays in
\* fetch_news, and when the third call fails collect raises the classified error
\* of that call, so a collect whose every call fails makes exactly 3 calls
AllFailuresRetriedThrice ==
    [][\A m \in FailureMessages :
          DoFetch([ok |-> FALSE, msg |-> m], 0, "ok", "ok") =>
             RetriedThrice(FetchNewsAt(call.query, call.limit, [ok |-> FALSE, msg |-> m], now).error)]_vars

\* a collect has raised the NetworkError of its third failed call
ThirdFailureRaisedReached ==
    /\ pc = "idle"
    /\ ops = 1
    /\ last.op = "collect"
    /\ last.result.kind = "raise"
    /\ last.result.error = Classify("boom")

\* the text of entry and query that the scorer searches: in lower case
Searched(entry, query) ==
    [title |-> Lower(DictGet(entry, "title", "")),
     summary |-> Lower(DictGet(entry, "summary", "")),
     segments |-> Split(Lower(query), ",")]

\* k: how many of the four keywords occur in the title or the summary
KeywordsFound(text) ==
    Cardinality({i \in DOMAIN keywords :
                    Contains(text.title, keywords[i]) \/ Contains(text.summary, keywords[i])})

\* m: 1 when a segment of the query occurs in the title or the summary, else 0
SegmentFound(text) ==
    IF \E i \in DOMAIN text.segments :
           Contains(text.title, text.segments[i]) \/ Contains(text.summary, text.segments[i])
    THEN 1 ELSE 0

\* C32: the score that _calculate_relevance returns is min(1, 0.3 * k + 0.4 * m), in
\* tenths min(10, 3 * k + 4 * m), with k the number of the four keywords that
\* occur in the lower-cased title or summary and m = 1 when a segment between the
\* commas of the lower-cased query occurs there, m = 0 otherwise
ScoreIsCappedSum ==
    last.op = "_calculate_relevance" =>
        last.result = Min(10, 3 * KeywordsFound(Searched(call.entry, call.query))
                              + 4 * SegmentFound(Searched(call.entry, call.query)))

\* the scorer has returned 0.9 for three keywords and no segment of the query
ThreeKeywordsReached ==
    /\ last.op = "_calculate_relevance"
    /\ last.result = 9
    /\ KeywordsFound(Searched(call.entry, call.query)) = 3
    /\ SegmentFound(Searched(call.entry, call.query)) = 0

\* C33: the wrapper sleeps only between a failure it retries and the next attempt:
\* while it runs every call made was followed by one sleep, and once it has
\* returned or raised after a >= 1 calls it has slept a - 1 times, so not after the
\* last call; the sleep after the failure of the attempt of index i (from 0) is
\* delay * backoff^i plus a jitter between 0 and 0.1 (0 and 1 tenth), and with
\* backoff > 1 and delay > 0 the part delay * backoff^i grows strictly from one
\* sleep to the next, so that two sleeps in a row differ by that growth to within
\* the jitter
SleepsOnlyBetweenAttempts ==
    pc = "wrapper" =>
        /\ retry.status = "running" => Len(retry.sleeps) = retry.calls
        /\ retry.status \in {"returned", "raised"} /\ retry.calls >= 1 =>
              Len(retry.sleeps) = retry.calls - 1
        /\ retry.calls = 0 => retry.sleeps = <<>>
        /\ \A i \in DOMAIN retry.sleeps :
              /\ ~ trace[i].ok /\ Caught(trace[i].error, retry.exceptions)
              /\ retry.sleeps[i] - retry.delay * Power(retry.backoff, i - 1) \in 0..1
        /\ \A i \in DOMAIN retry.sleeps :
              (i > 1 /\ retry.backoff > 1 /\ retry.delay > 0) =>
                 /\ retry.delay * Power(retry.backoff, i - 1) > retry.delay * Power(retry.backoff, i - 2)
                 /\ retry.sleeps[i] - retry.sleeps[i - 1] >=
                       retry.delay * (Power(retry.backoff, i - 1) - Power(retry.backoff, i - 2)) - 1

\* the wrapper has returned at its third call after sleeps of 0.1 and 0.3 seconds
TwoGrowingSleepsReached ==
    /\ pc = "wrapper"
    /\ retry.status = "returned"
    /\ retry.calls = 3
    /\ retry.sleeps = <<1, 3>>

\* the step is a put of the non-empty list articles for key, written without a
\* failure over an entry that was there
Overwrites(key, articles) ==
    /\ DoPut(key, articles, "ok")
    /\ articles # <<>>
    /\ KeyPath(key) \in DOMAIN cache_dir

\* C34: a put of a non-empty list B that is written without a failure over an
\* entry of the same key replaces the entry: the other entries stay, and a get of
\* the key at a time t from then on returns B, the same articles in the same
\* order and none of the entry before, while t is less than ttl_hours after the
\* time of this put, and None from then on
OverwriteIsWholesale ==
    [][\A key \in Keys, B \in ArticleLists :
          Overwrites(key, B) =>
             /\ DOMAIN cache_dir' = DOMAIN cache_dir
             /\ \A p \in DOMAIN cache_dir : p # KeyPath(key) => cache_dir'[p] = cache_dir[p]
             /\ \A hours \in TtlHours, t \in Times :
                   t >= now =>
                      CacheGet(cache_dir', hours, key[1], key[2], t)
                         = IF t - now < Ttl(hours) THEN ListResult(B) ELSE NoneResult]_vars

\* a put at time 1 has replaced the entry that a collect wrote at time 0 with its
\* snapshot: the entry holds other articles than the snapshot and is of time 1
OverwrittenReached ==
    /\ last.op = "put"
    /\ ops = 2
    /\ use_cache
    /\ faults = 0
    /\ DOMAIN storage = {SnapshotName(0)}
    /\ storage[SnapshotName(0)].kind = "json"
    /\ \E p \in DOMAIN cache_dir :
          /\ DOMAIN cache_dir = {p}
          /\ cache_dir[p].kind = "json"
          /\ cache_dir[p].data.cached_at = IsoFormat(1)
          /\ cache_dir[p].data.articles # storage[SnapshotName(0)].data.articles

\* C35: when the write of the cache entry fails in a collect that fetched a
\* non-empty list A, collect returns A, the snapshot of the run is in the snapshot
\* directory, and a collect without force_refresh for the same key that follows
\* finds no entry to return, as on a miss
FailedPutIsAMiss ==
    [][\A r \in Responses, io_put \in IoOutcomes \ {"ok"} :
          (/\ DoFetch(Answer(r), 0, "ok", io_put)
           /\ use_cache
           /\ FetchNewsAt(call.query, call.limit, Answer(r), now).value # <<>>)
          => /\ last' = Done("collect",
                             ListResult(FetchNewsAt(call.query, call.limit, Answer(r), now).value))
             /\ SnapshotName(now) \in DOMAIN storage'
             /\ storage'[SnapshotName(now)].kind = "json"
             /\ ~ CollectCached(cache_dir', use_cache, call.query, call.limit, FALSE, now').hit]_vars

----------------------------------------------------------------------------
(* Two collect runs of one (query, limit) in two processes that write the same
   cache file at the same time, and a reader: the specification SpecRace *)

\* the two processes; each is in NewsCache.put, at the end of its collect
Writers == {1, 2}

\* the key both collect runs were called with
RaceKey == <<"sport", 1>>

\* the non-empty lists that the two runs fetched
RaceLists == ArticleLists \ {<<>>}

\* what json.dump writes for cache_data, in the pieces that reach the file one
\* after the other: the head with the fields before the articles, one piece for
\* each article, and the closing brackets
Dumped(articles, t) ==
    <<[piece |-> "head", query |-> RaceKey[1], limit |-> RaceKey[2],
       cached_at |-> IsoFormat(t), articles_count |-> Len(articles)]>>
    \o [i \in 1..Len(articles) |-> [piece |-> "article", data |-> ToDict(articles[i])]]
    \o <<[piece |-> "end"]>>

\* the pieces a file holds where no process has written: a hole of zero bytes
Hole == [piece |-> "zeros"]

\* the file after a process wrote the pieces written at its offset: the pieces
\* it covers are replaced, those before and after stay, a gap is a hole
WrittenAt(file, offset, written) ==
    [i \in 1..Max(Len(file), offset + Len(written)) |->
        IF i > offset /\ i <= offset + Len(written) THEN written[i - offset]
        ELSE IF i <= Len(file) THEN file[i]
        ELSE Hole]

\* json.load of the pieces of a file: the dict when they are a head, articles and
\* an end and nothing else, a JSONDecodeError otherwise
JsonLoad(file) ==
    IF /\ Len(file) >= 2
       /\ file[1].piece = "head"
       /\ file[Len(file)].piece = "end"
       /\ \A i \in 2..(Len(file) - 1) : file[i].piece = "article"
    THEN Json([query |-> file[1].query, limit |-> file[1].limit,
               cached_at |-> file[1].cached_at, articles_count |-> file[1].articles_count,
               articles |-> [i \in 1..(Len(file) - 2) |-> file[i + 1].data]])
    ELSE Truncated

\* the cache directory as a reader finds it when the entry's file holds file
AsRead(file) == KeyPath(RaceKey) :> JsonLoad(file)

\* both processes have fetched their lists and are about to call put; the cache
\* file does not exist yet
InitRace ==
    /\ now = 0
    /\ cache_dir = <<>>
    /\ storage = <<>>
    /\ use_cache = TRUE
    /\ pc = "race"
    /\ call \in [Writers -> {[at |-> "put", offset |-> 0, articles |-> a, dumped |-> <<>>] :
                                 a \in RaceLists}]
    /\ retry = IdleFrame
    /\ trace = <<>>
    /\ last = Done("", NoneResult)
    /\ ops = 0
    /\ faults = 0

\* the cache file's pieces; a file that does not exist reads as no pieces
RaceFile == IF KeyPath(RaceKey) \in DOMAIN cache_dir THEN cache_dir[KeyPath(RaceKey)] ELSE <<>>

\* put of process p up to open(cache_path, 'w'): cache_data is built with the time
\* of now, and the open creates the file or truncates it to length 0
RaceOpen(p) ==
    /\ pc = "race"
    /\ call[p].at = "put"
    /\ call' = [call EXCEPT ![p].at = "dump", ![p].dumped = Dumped(call[p].articles, now)]
    /\ cache_dir' = (KeyPath(RaceKey) :> <<>>)
    /\ UNCHANGED <<now, storage, use_cache, pc, retry, trace, last, ops, faults>>

\* json.dump of process p: the next n pieces reach the file at the offset of p;
\* with the last piece the file is closed and put returns
RaceWrite(p, n) ==
    /\ pc = "race"
    /\ call[p].at = "dump"
    /\ n >= 1
    /\ call[p].offset + n <= Len(call[p].dumped)
    /\ cache_dir' = (KeyPath(RaceKey) :>
                        WrittenAt(RaceFile, call[p].offset,
                                  SubSeq(call[p].dumped, call[p].offset + 1, call[p].offset + n)))
    /\ call' = [call EXCEPT ![p].offset = @ + n,
                            ![p].at = IF call[p].offset + n = Len(call[p].dumped)
                                      THEN "done" ELSE "dump"]
    /\ UNCHANGED <<now, storage, use_cache, pc, retry, trace, last, ops, faults>>

\* NewsCache.get of the key by a third process, which reads the file as it is
RaceGet ==
    /\ pc = "race"
    /\ ops < MaxOps
    /\ ops' = ops + 1
    /\ last' = Done("get", IF KeyPath(RaceKey) \in DOMAIN cache_dir
                           THEN CacheGet(AsRead(RaceFile), CollectorTtlHours,
                                         RaceKey[1], RaceKey[2], now)
                           ELSE NoneResult)
    /\ UNCHANGED <<now, cache_dir, storage, use_cache, pc, call, retry, trace, faults>>

NextRace ==
    \/ Tick
    \/ \E p \in Writers : RaceOpen(p)
    \/ \E p \in Writers, n \in 1..4 : RaceWrite(p, n)
    \/ RaceGet

SpecRace == InitRace /\ [][NextRace]_vars

GetLeavesCacheAsItWas ==
    [][\A key \in Keys, hours \in TtlHours :
          DoGet(key, hours) =>
             /\ cache_dir' = cache_dir
             /\ IsEntry(cache_dir, KeyPath(key)) =>
                   /\ cache_dir'[KeyPath(key)].data.cached_at = cache_dir[KeyPath(key)].data.cached_at
                   /\ \A t \in Times :
                         t >= now =>
                            (GetAt(cache_dir', hours, key, t).kind = "list"
                               <=> Age(cache_dir, KeyPath(key), t) < Ttl(hours))]_vars

\* a get at time 0 has returned the articles of an entry, and at a later time the
\* entry is still of time 0
HitDidNotRefreshReached ==
    /\ last.op = "get"
    /\ last.result.kind = "list"
    /\ now > 0
    /\ \E key \in Keys :
          /\ IsEntry(cache_dir, KeyPath(key))
          /\ cache_dir[KeyPath(key)].data.cached_at = IsoFormat(0)
          /\ cache_dir[KeyPath(key)].data.articles = ToDicts(last.result.articles)

\* the step ends a collect with the error of the last attempt of fetch_news
FetchFailureEnds ==
    /\ pc = "fetching"
    /\ pc' = "idle"
    /\ last'.result.kind = "raise"
    /\ Caught(last'.result.error, retry.exceptions)

\* C38: no step of a collect whose fetch fails changes a file: the step that
\* starts the fetch, the steps in which an attempt fails and is tried again, and
\* the step in which the last attempt fails and collect raises leave the cache
\* directory and the snapshot directory as they were; and every key for which a
\* collect without force_refresh would have returned an entry before the last
\* step gets the same articles from such a collect after it
FetchFailureChangesNothing ==
    [][/\ pc' = "fetching" => UNCHANGED <<cache_dir, storage>>
       /\ FetchFailureEnds =>
             /\ UNCHANGED <<cache_dir, storage>>
             /\ \A key \in Keys :
                   CollectCached(cache_dir, use_cache, key[1], key[2], FALSE, now).hit =>
                      CollectCached(cache_dir', use_cache, key[1], key[2], FALSE, now')
                         = CollectCached(cache_dir, use_cache, key[1], key[2], FALSE, now)]_vars

\* the second operation, a collect, has raised the error of fetch_news and the
\* cache still holds the valid entry written before it
FailedRefreshKeptEntryReached ==
    /\ pc = "idle"
    /\ ops = 2
    /\ last.op = "collect"
    /\ last.result.kind = "raise"
    /\ last.result.error.cls = "TimeoutError"
    /\ storage = <<>>
    /\ \E key \in Keys : CollectCached(cache_dir, use_cache, key[1], key[2], FALSE, now).hit

\* the step ends a collect with force_refresh that fetched nothing
EmptyRefreshEnds ==
    /\ pc = "fetching"
    /\ pc' = "idle"
    /\ call.force_refresh
    /\ last' = Done("collect", ListResult(<<>>))

\* C39: a collect with force_refresh that returns the empty list leaves the entry
\* of its (query, limit) in the cache: at every time from then on at which a
\* collect without force_refresh would have returned the entry's articles had the
\* refresh not been made, it returns them after the refresh, from its one
\* cache.get and without a call of the source
EmptyRefreshKeepsEntry ==
    [][EmptyRefreshEnds =>
          /\ cache_dir' = cache_dir
          /\ \A t \in Times :
                (t >= now /\ CollectCached(cache_dir, use_cache, call.query, call.limit, FALSE, t).hit) =>
                   /\ CollectCached(cache_dir', use_cache, call.query, call.limit, FALSE, t)
                         = CollectCached(cache_dir, use_cache, call.query, call.limit, FALSE, t)
                   /\ CollectCached(cache_dir', use_cache, call.query, call.limit, FALSE, t).result.articles # <<>>]_vars

\* the second operation, a collect, has returned the empty list, and the cache
\* holds one entry, written by a put, that is valid
EmptyRefreshOverEntryReached ==
    /\ pc = "idle"
    /\ ops = 2
    /\ last = Done("collect", ListResult(<<>>))
    /\ storage = <<>>
    /\ Cardinality(DOMAIN cache_dir) = 1
    /\ \E key \in Keys : CollectCached(cache_dir, use_cache, key[1], key[2], FALSE, now).hit

\* C40: a collect whose snapshot write fails raises the error of the write and
\* leaves the cache directory as it was; and a collect that changes the cache
\* directory has written, in the same run, the whole snapshot of the articles it
\* returns, which are the articles of the entry when the entry was written whole
SnapshotBeforeCacheEntry ==
    [][(pc = "fetching" /\ pc' = "idle") =>
          /\ SaveFails => cache_dir' = cache_dir
          /\ cache_dir' # cache_dir =>
                /\ last'.result.kind = "list"
                /\ SnapshotName(now) \in DOMAIN storage'
                /\ storage'[SnapshotName(now)] = Json(SnapshotData(last'.result.articles, now))
                /\ IsEntry(cache_dir', KeyPath(<<call.query, call.limit>>)) =>
                      cache_dir'[KeyPath(<<call.query, call.limit>>)].data.articles
                         = storage'[SnapshotName(now)].data.articles]_vars

\* a collect has raised the OSError of a snapshot write that failed after the file
\* was opened: the truncated snapshot is there and the cache is empty
SnapshotFailedNoEntryReached ==
    /\ pc = "idle"
    /\ use_cache
    /\ last.op = "collect"
    /\ last.result.kind = "raise"
    /\ last.result.error.cls = "OSError"
    /\ \E n \in DOMAIN storage : storage[n].kind = "truncated"
    /\ cache_dir = <<>>

====
